---- MODULE Spec2Model ----
(***************************************************************************)
(* Band-Camp-Tracker: the alert run of src/alerts/alerts.py, invoked       *)
(* through src/alerts/lambda_handler.py.                                   *)
(*                                                                         *)
(* The database (sale, release, subscriber, subscriber_genre) is state;    *)
(* one run of main() walks through get_connection, the three notification  *)
(* families and the close of the connection.  Query failures, the row the  *)
(* database picks among tied counts, the order of the subscribed genres    *)
(* and the outcome of every SMTP conversation are inputs of the actions.   *)
(***************************************************************************)
EXTENDS Integers, Sequences, FiniteSets, TLC

\* ---------------------------------------------------------------------
\* Program constants
\* ---------------------------------------------------------------------
ALERT_INTERVAL == 60

COMPARISON_PERIOD == 2880

GENRE_NOTIFICATION_THRESHOLD == 20

\* ---------------------------------------------------------------------
\* Bounds of the model
\* ---------------------------------------------------------------------
\* rows of the sale table when all of them are recent sales of one release
MaxSales == 6

\* rows of the sale table when they are of any kind
MaxSmallSales == 3

\* rows of the sale table when the subscriber table or the time
\* configuration is varied
MaxTinySales == 2

\* rows of the subscriber table
MaxSubscribers == 2

\* invocations of lambda_handler that follow each other
MaxRuns == 2

\* events in one answer of the sales feed
MaxEvents == 2

\* rows of the sales frame handed to main_load
MaxRows == 2

\* the statements of a load among which one may fail
MaxFailAt == 12

\* ---------------------------------------------------------------------
\* The database
\* ---------------------------------------------------------------------
Artists == {"A", "B"}

Genres == {"rock", "jazz"}

\* release joined with artist and release_genre: release_id -> artist, genres
release ==
  <<[artist |-> "A", genres |-> {"rock"}],
    [artist |-> "B", genres |-> {"rock"}],
    [artist |-> "B", genres |-> {"jazz"}]>>

Releases == DOMAIN release

\* age of a sale in minutes, NOW() - sale_date: inside the last alert
\* interval, on the boundary of the historic window, older than the
\* comparison period
SaleAges == <<0, ALERT_INTERVAL, COMPARISON_PERIOD + 1>>

NAges == Len(SaleAges)

\* the kinds of sale row: the release sold and the age of the sale
SlotSeq ==
  [i \in 1..(Len(release) * NAges) |->
     [release_id |-> ((i - 1) \div NAges) + 1,
      age |-> SaleAges[((i - 1) % NAges) + 1]]]

Slots == DOMAIN SlotSeq

Emails == 1..MaxSubscribers

Kinds == {"TopArtistChanged", "TopGenreChanged", "GenreGrowth"}

VARIABLES
  sale,             \* sale table: kind of row -> number of rows
  subscriber,       \* subscriber table with subscriber_genre: id -> row
  alertInterval,    \* configured ALERT_INTERVAL of the deployed module
  comparisonPeriod, \* configured COMPARISON_PERIOD of the deployed module
  fault,            \* the fault this run meets: a failing query or SMTP step
  environ,          \* names of the environment variables that are set
  pc,               \* position of the run inside lambda_handler / main
  conn,             \* "none", "open" or "closed"
  exc,              \* exception raised out of main, "none" if none
  metric,           \* identities fetched by the two top-change families
  deltas,           \* genre -> delta computed in this run
  remaining,        \* subscribed genres the loop has not reached yet
  done,             \* notification families that returned normally
  queryLog,         \* queries executed in this run, in order
  outbox,           \* calls of send_email in this run, in order
  status,           \* statusCode returned by lambda_handler, 0 if none
  run,              \* number of this invocation of lambda_handler
  previous,         \* what the invocation before this one fetched and sent
  feed,             \* what the sales feed does with the request of the pipeline
  extracted,        \* what get_sales_information did with it
  frame,            \* sales_df, the rows handed to main_load
  loadFault,        \* what goes wrong in this load
  cursor,           \* the transaction of main_load: tables as it sees them,
                    \* statements executed, whether it is aborted, the log
  durable,          \* the tables as committed
  load,             \* position of main_load, its connection, what it raised
  rds,              \* the subscriber and subscriber_genre tables as the
                    \* dashboard reads and writes them
  onDelete,         \* what the schema does with the subscriber_genre rows of
                    \* a subscriber row that is deleted
  pageCall,         \* the call the subscribe page made, and how it ended
  report,           \* the run of the report handler: position, steps taken,
                    \* recipients fetched and served, what was raised, status
  reportFault       \* the failure this run of the report handler meets

vars == <<sale, subscriber, alertInterval, comparisonPeriod, fault, environ,
          pc, conn, exc, metric, deltas, remaining, done, queryLog, outbox,
          status, run, previous, feed, extracted, frame, loadFault, cursor,
          durable, load, rds, onDelete, pageCall, report, reportFault>>

dbvars == <<sale, subscriber, alertInterval, comparisonPeriod, fault, environ>>

runvars == <<run, previous>>

pipevars == <<feed, extracted>>

loadvars == <<frame, loadFault, cursor, durable, load>>

dashvars == <<rds, onDelete, pageCall>>

reportvars == <<report, reportFault>>

alertvars == <<pc, conn, exc, metric, deltas, remaining, done, queryLog, outbox,
               status>>

\* ---------------------------------------------------------------------
\* Helpers
\* ---------------------------------------------------------------------
RECURSIVE RowCount(_, _)
\* COUNT(s.sale_id) over the kinds of row in S
RowCount(tbl, S) ==
  IF S = {} THEN 0
  ELSE LET s == CHOOSE x \in S : TRUE
       IN tbl[s] + RowCount(tbl, S \ {s})

RECURSIVE CountVectors(_, _)
\* all sequences of n natural numbers whose sum is at most k
CountVectors(n, k) ==
  IF n = 0 THEN {<<>>}
  ELSE UNION {{<<c>> \o rest : rest \in CountVectors(n - 1, k - c)} : c \in 0..k}

\* every sale table with at most k rows, all of them of the kinds in S
SaleTables(S, k) ==
  {w \in CountVectors(Len(SlotSeq), k) : \A s \in Slots \ S : w[s] = 0}

\* sales inside the comparison period
RecentSlots == {s \in Slots : SlotSeq[s].age <= COMPARISON_PERIOD}

\* every sale table with at most one row of each kind, all of them recent
UnitTables ==
  {[s \in Slots |-> IF s \in S THEN 1 ELSE 0] : S \in SUBSET RecentSlots}

\* every subscriber opted into general alerts; the first one follows every
\* genre, the others follow jazz
FullSubscribers ==
  [i \in Emails |-> [alert |-> TRUE,
                     genres |-> IF i = 1 THEN Genres ELSE {"jazz"}]]

NotFetched == "?"

NoDelta == [num |-> 0, den |-> 0]

\* ascending sequence of a finite set of integers: rows in table order
RECURSIVE TableOrder(_)
TableOrder(S) ==
  IF S = {} THEN <<>>
  ELSE LET m == CHOOSE x \in S : \A y \in S : x <= y
       IN <<m>> \o TableOrder(S \ {m})

\* ---------------------------------------------------------------------
\* Environment
\* ---------------------------------------------------------------------
\* required_vars of validate_env_vars
RequiredVars == {"DB_HOST", "DB_PORT", "DB_USER", "DB_PASSWORD", "DB_NAME"}

\* the variables send_email reads
EmailVars == {"EMAIL_NAME", "EMAIL_PASSWORD"}

\* the exception validate_env_vars raises under this environment; main()
\* and get_connection() do not call it
validate_env_vars(env) ==
  IF RequiredVars \ env # {} THEN "EnvironmentError" ELSE "none"

\* ---------------------------------------------------------------------
\* Time windows
\* ---------------------------------------------------------------------
\* "NOW() - INTERVAL '<minutes> minutes'" as its pieces; [:-1] drops the
\* last character of the quoted literal
convert_mins_to_sql_time(minutes) ==
  IF minutes < 1
    THEN [raised |-> "ValueError", text |-> <<>>]
    ELSE LET time_string == <<"'", minutes, " minute", "s", "'">>
         IN [raised |-> "none",
             text |-> <<"NOW() - INTERVAL ">> \o
                      (IF minutes = 1
                         THEN SubSeq(time_string, 1, Len(time_string) - 1)
                         ELSE time_string)]

\* the interval literal of a query text has lost its closing quote: the
\* statement does not parse and cursor.execute raises a psycopg2.Error
Malformed(text) == text[Len(text)] # "'"

\* the current window cut off where the historic window ends
InCurrentWindowAfterHistoric(age, cp) == age <= cp /\ age < alertInterval

\* WHERE s.sale_date >= NOW() - INTERVAL 'cp minutes'
InCurrentWindow(age, cp) == age <= cp

\* the lower end of the BETWEEN left out
InHistoricWindowUnbounded(age, cp, ai) == age >= ai

\* WHERE s.sale_date BETWEEN NOW() - INTERVAL 'cp minutes'
\*                       AND NOW() - INTERVAL 'ai minutes'
InHistoricWindow(age, cp, ai) == age <= cp /\ age >= ai

\* the row(s) GROUP BY name ORDER BY COUNT(s.sale_id) DESC LIMIT 1 may
\* return, given the count of each name: a group exists only for a name with
\* at least one sale, ties are broken by the database
TopRows(counts) ==
  {n \in DOMAIN counts :
     counts[n] > 0 /\ \A m \in DOMAIN counts : counts[m] <= counts[n]}

\* sale JOIN release JOIN artist, by artist_name
ArtistSlots ==
  [a \in Artists |-> {s \in Slots : release[SlotSeq[s].release_id].artist = a}]

\* sale JOIN release JOIN release_genre JOIN genre, by genre_name
GenreSlots ==
  [g \in Genres |-> {s \in Slots : g \in release[SlotSeq[s].release_id].genres}]

query_top_artist(tbl, cp) ==
  TopRows([a \in Artists |->
             RowCount(tbl, {s \in ArtistSlots[a] :
                              InCurrentWindow(SlotSeq[s].age, cp)})])

query_historic_top_artist(tbl, cp, ai) ==
  TopRows([a \in Artists |->
             RowCount(tbl, {s \in ArtistSlots[a] :
                              InHistoricWindow(SlotSeq[s].age, cp, ai)})])

query_top_genre(tbl, cp) ==
  TopRows([g \in Genres |->
             RowCount(tbl, {s \in GenreSlots[g] :
                              InCurrentWindow(SlotSeq[s].age, cp)})])

query_historic_top_genre(tbl, cp, ai) ==
  TopRows([g \in Genres |->
             RowCount(tbl, {s \in GenreSlots[g] :
                              InHistoricWindow(SlotSeq[s].age, cp, ai)})])

query_genre_sales(tbl, genre, cp) ==
  RowCount(tbl, {s \in GenreSlots[genre] : InCurrentWindow(SlotSeq[s].age, cp)})

query_historic_genre_sales(tbl, genre, cp, ai) ==
  RowCount(tbl, {s \in GenreSlots[genre] :
                   InHistoricWindow(SlotSeq[s].age, cp, ai)})

\* ---------------------------------------------------------------------
\* Subscribers
\* ---------------------------------------------------------------------
\* the subscriber table joined with itself: every row comes twice
get_general_subscriber_emails_twice(sub) ==
  LET rows == TableOrder({i \in DOMAIN sub : sub[i].alert})
  IN rows \o rows

get_general_subscriber_emails(sub) ==
  TableOrder({i \in DOMAIN sub : sub[i].alert})

\* the WHERE clause on the genre name left out
get_genre_subscriber_emails_any(sub, genre) ==
  TableOrder({i \in DOMAIN sub : sub[i].genres # {}})

get_genre_subscriber_emails(sub, genre) ==
  TableOrder({i \in DOMAIN sub : genre \in sub[i].genres})

get_subscribed_genres(sub) ==
  {g \in Genres : \E i \in DOMAIN sub : g \in sub[i].genres}

\* ---------------------------------------------------------------------
\* Sending
\* ---------------------------------------------------------------------
\* what the SMTP server does with one message: "ok", or the step that fails
TransportFailures == {"connect", "starttls", "login", "sendmail"}

\* exception smtplib raises when the step fails
TransportError(t) ==
  CASE t = "connect"  -> "SMTPConnectError"
    [] t = "starttls" -> "SMTPNotSupportedError"
    [] t = "login"    -> "SMTPAuthenticationError"
    [] t = "sendmail" -> "SMTPRecipientsRefused"
    [] OTHER          -> "none"

\* the calls send_email makes on smtplib when nothing fails, quit left out
Conversation(recipient, subject, body) ==
  <<[op |-> "SMTP", args |-> <<"smtp.gmail.com", 587>>],
    [op |-> "starttls", args |-> <<>>],
    [op |-> "login", args |-> <<"EMAIL_NAME", "EMAIL_PASSWORD">>],
    [op |-> "sendmail",
     args |-> <<"EMAIL_NAME", recipient,
                [From |-> "EMAIL_NAME", To |-> recipient, Subject |-> subject,
                 text |-> body]>>]>>

\* the index of the call of the conversation that transport outcome t makes
\* raise; the length of the conversation when t is "ok"
LastCall(t) ==
  CASE t = "connect"  -> 1
    [] t = "starttls" -> 2
    [] t = "login"    -> 3
    [] OTHER          -> 4

Quit == [op |-> "quit", args |-> <<>>]

\* login before starttls
send_email_login_first(recipient, subject, body, t) ==
  LET c == Conversation(recipient, subject, body)
      tried == <<c[1], c[3], c[2], c[4]>>
      error == TransportError(t)
      caught == error = "SMTPConnectError"
      bound == t # "connect"
  IN [steps |-> SubSeq(tried, 1, LastCall(t)) \o (IF bound THEN <<Quit>> ELSE <<>>),
      delivered |-> t = "ok",
      logged |-> caught,
      raised |-> IF ~bound THEN "UnboundLocalError"
                 ELSE IF caught THEN "none"
                 ELSE error]

\* send_email(recipient, subject, body) under transport outcome t: the
\* calls made on smtplib, whether the message was handed over, and the
\* exception that leaves send_email.  Only SMTPConnectError is caught; the
\* finally clause calls quit on a name that is bound only when smtplib.SMTP
\* returned.
send_email(recipient, subject, body, t) ==
  LET tried == Conversation(recipient, subject, body)
      error == TransportError(t)
      caught == error = "SMTPConnectError"
      bound == t # "connect"
  IN [steps |-> SubSeq(tried, 1, LastCall(t)) \o (IF bound THEN <<Quit>> ELSE <<>>),
      delivered |-> t = "ok",
      logged |-> caught,
      raised |-> IF ~bound THEN "UnboundLocalError"
                 ELSE IF caught THEN "none"
                 ELSE error]

\* ---------------------------------------------------------------------
\* The three messages
\* ---------------------------------------------------------------------
\* f"{COMPARISON_PERIOD/60}": the float quotient as Python prints it
Hours(minutes) ==
  IF minutes % 60 = 0 THEN <<minutes \div 60, ".0">>
  ELSE <<minutes \div 60, "+", minutes % 60, "/60">>

\* str.title() of the genre names of the store
Title == [g \in Genres |-> IF g = "rock" THEN "Rock" ELSE "Jazz"]

\* f"{sales_delta:.1f}" of a delta that is not negative: the number of
\* tenths nearest to it, a tie going to the even one
OneDecimal(sales_delta) ==
  LET n == 10 * sales_delta.num
      q == n \div sales_delta.den
      r == n % sales_delta.den
      tenths == IF 2 * r > sales_delta.den THEN q + 1
                ELSE IF 2 * r < sales_delta.den THEN q
                ELSE IF q % 2 = 0 THEN q ELSE q + 1
  IN <<tenths \div 10, ".", tenths % 10>>

\* what an alert function did: the message it built, the calls of send_email
\* on smtplib, and the exception that leaves the alert function
Sent(email, subject, body, t) ==
  LET call == send_email(email, subject, body, t)
  IN [to |-> email, subject |-> subject, body |-> body, steps |-> call.steps,
      raised |-> call.raised]

\* the call of send_email wrapped in try/except Exception: pass
send_top_artist_alert_swallow(email, artist, t) ==
  [Sent(email, <<"Top Artist Change Alert">>,
        <<"The artist with the most sales in the last ">>
          \o Hours(comparisonPeriod)
          \o <<" hours has changed!\nThe new number 1 artist is ", artist, ".">>,
        t) EXCEPT !.raised = "none"]

send_top_artist_alert(email, artist, t) ==
  Sent(email, <<"Top Artist Change Alert">>,
       <<"The artist with the most sales in the last ">>
         \o Hours(comparisonPeriod)
         \o <<" hours has changed!\nThe new number 1 artist is ", artist, ".">>,
       t)

send_top_genre_alert(email, genre, t) ==
  Sent(email, <<"Top Genre Change Alert">>,
       <<"The genre with the most sales in the last ">>
         \o Hours(comparisonPeriod)
         \o <<" hours has changed!\nThe new number 1 genre is '", genre, "'.">>,
       t)

send_chosen_genre_alert(email, genre, sales_delta, t) ==
  Sent(email, <<Title[genre], " Growth Alert">>,
       <<"Your subscribed genre '", genre, "' has seen a ">>
         \o OneDecimal(sales_delta)
         \o <<"% increase in sales in the last ", alertInterval, " minutes!">>,
       t)

RECURSIVE SendLoop(_, _, _, _, _, _, _)
\* for email in emails: send_<kind>_alert(email, about[, delta]): the i-th
\* call and the ones after it; the k-th SMTP conversation ends as t, the
\* others "ok".  The loop ends with the first exception that leaves the
\* alert function.
SendLoop(kind, emails, about, delta, i, k, t) ==
  IF i > Len(emails) THEN [out |-> <<>>, raised |-> "none"]
  ELSE LET outcome == IF i = k THEN t ELSE "ok"
           r == CASE kind = "TopArtistChanged" ->
                       send_top_artist_alert(emails[i], about, outcome)
                  [] kind = "TopGenreChanged" ->
                       send_top_genre_alert(emails[i], about, outcome)
                  [] OTHER ->
                       send_chosen_genre_alert(emails[i], about, delta, outcome)
           entry == [kind |-> kind, to |-> r.to, about |-> about,
                     result |-> outcome, subject |-> r.subject,
                     body |-> r.body, steps |-> r.steps]
       IN IF r.raised # "none"
            THEN [out |-> <<entry>>, raised |-> r.raised]
            ELSE LET rest == SendLoop(kind, emails, about, delta, i + 1, k, t)
                 IN [out |-> <<entry>> \o rest.out, raised |-> rest.raised]

Q(name, genre) == [q |-> name, genre |-> genre]

\* ---------------------------------------------------------------------
\* The two top-change families
\* ---------------------------------------------------------------------
\* the comparison left out: the alert goes out on every run
TopArtistChangedAlways(top_artist, historic_top_artist) == TRUE

\* if top_artist != historic_top_artist
TopArtistChanged(top_artist, historic_top_artist) ==
  top_artist # historic_top_artist

\* the comparison inverted
TopGenreChangedInverted(top_genre, historic_top_genre) ==
  top_genre = historic_top_genre

\* if top_genre != historic_top_genre
TopGenreChanged(top_genre, historic_top_genre) ==
  top_genre # historic_top_genre

\* alert_top_artist_change and alert_top_genre_change share one shape:
\* current query, historic query, general subscribers, compare, send loop.
\* curRows / histRows: rows the two queries may return; cur / hist: the row
\* the database picks; changed: the comparison of the two; dbfail: which of
\* the three queries raises psycopg2.Error (0: none); k, t: the failing
\* SMTP conversation (0: none).
AlertTopChange(kind, qcur, qhist, curRows, histRows, cur, hist, changed, dbfail, k, t) ==
  LET cp == convert_mins_to_sql_time(comparisonPeriod)
      ai == convert_mins_to_sql_time(alertInterval)
      none == [raised |-> "none", log |-> <<>>, top |-> NotFetched,
               historic |-> NotFetched, out |-> <<>>]
      q1 == <<Q(qcur, "")>>
      q2 == q1 \o <<Q(qhist, "")>>
      q3 == q2 \o <<Q("get_general_subscriber_emails", "")>>
      sub_emails == get_general_subscriber_emails(subscriber)
  IN IF cp.raised # "none" THEN [none EXCEPT !.raised = cp.raised]
     ELSE IF dbfail = 1 \/ Malformed(cp.text)
       THEN [none EXCEPT !.raised = "psycopg2.Error", !.log = q1]
     ELSE IF curRows = {} THEN [none EXCEPT !.raised = "TypeError", !.log = q1]
     ELSE IF ai.raised # "none"
       THEN [none EXCEPT !.raised = ai.raised, !.log = q1, !.top = cur]
     ELSE IF dbfail = 2 \/ Malformed(ai.text)
       THEN [none EXCEPT !.raised = "psycopg2.Error", !.log = q2, !.top = cur]
     ELSE IF histRows = {}
       THEN [none EXCEPT !.raised = "TypeError", !.log = q2, !.top = cur]
     ELSE IF dbfail = 3
       THEN [none EXCEPT !.raised = "psycopg2.Error", !.log = q3, !.top = cur,
                         !.historic = hist]
     ELSE LET sent == IF changed
                        THEN SendLoop(kind, sub_emails, cur, NoDelta, 1, k, t)
                        ELSE [out |-> <<>>, raised |-> "none"]
          IN [raised |-> sent.raised, log |-> q3, top |-> cur,
              historic |-> hist, out |-> sent.out]

\* the row fetchone() returns: one of the rows, None when there is no row
Fetched(rows) == IF rows = {} THEN {NotFetched} ELSE rows

\* ---------------------------------------------------------------------
\* Faults
\* ---------------------------------------------------------------------
\* a run meets at most one fault: in the step named (a step of main, or the
\* genre of a loop iteration) either the dbfail-th query raises
\* psycopg2.Error or the k-th SMTP conversation ends as t
NoFault == [step |-> "none", dbfail |-> 0, k |-> 0, t |-> "ok"]

FamilySteps == {"alert_top_artist_change", "alert_top_genre_change"} \cup Genres

Faults ==
  {NoFault}
  \cup {[NoFault EXCEPT !.step = s, !.dbfail = 1] :
          s \in {"get_connection", "get_subscribed_genres"}}
  \cup {[NoFault EXCEPT !.step = s, !.dbfail = n] : s \in FamilySteps, n \in 1..3}
  \cup {[NoFault EXCEPT !.step = s, !.k = k, !.t = t] :
          s \in FamilySteps, k \in 1..MaxSubscribers, t \in TransportFailures}

\* the part of the fault that strikes in step s
FaultAt(s) == IF fault.step = s THEN fault ELSE NoFault

\* ---------------------------------------------------------------------
\* The genre-growth family
\* ---------------------------------------------------------------------
\* the difference divided by the recent count instead of the historic one
PercentDeltaOfRecent(recent_sales, historic_sales) ==
  [num |-> 100 * (recent_sales - historic_sales), den |-> recent_sales]

\* 100 * (recent_sales - historic_sales) / historic_sales as the exact
\* quotient num / den; the division raises when den = 0
PercentDelta(recent_sales, historic_sales) ==
  [num |-> 100 * (recent_sales - historic_sales), den |-> historic_sales]

\* the current count fetched a second time for the numerator
calculate_genre_sales_delta_requery(tbl, genre, dbfail) ==
  LET cp == convert_mins_to_sql_time(comparisonPeriod)
      ai == convert_mins_to_sql_time(alertInterval)
      recent_sales == query_genre_sales(tbl, genre, comparisonPeriod)
      historic_sales ==
        query_historic_genre_sales(tbl, genre, comparisonPeriod, alertInterval)
      q1 == <<Q("query_genre_sales", genre)>>
      q2 == q1 \o <<Q("query_historic_genre_sales", genre)>>
      none == [raised |-> "none", log |-> <<>>, delta |-> NoDelta]
  IN IF cp.raised # "none" THEN [none EXCEPT !.raised = cp.raised]
     ELSE IF dbfail = 1 \/ Malformed(cp.text)
       THEN [none EXCEPT !.raised = "psycopg2.Error", !.log = q1]
     ELSE IF ai.raised # "none" THEN [none EXCEPT !.raised = ai.raised, !.log = q1]
     ELSE IF dbfail = 2 \/ Malformed(ai.text)
       THEN [none EXCEPT !.raised = "psycopg2.Error", !.log = q2]
     ELSE IF historic_sales = 0
       THEN [none EXCEPT !.raised = "ZeroDivisionError", !.log = q2 \o q1]
     ELSE [raised |-> "none", log |-> q2 \o q1,
           delta |-> PercentDelta(recent_sales, historic_sales)]

\* calculate_genre_sales_delta(cursor, genre); dbfail: which of its two
\* queries raises psycopg2.Error (0: none)
calculate_genre_sales_delta(tbl, genre, dbfail) ==
  LET cp == convert_mins_to_sql_time(comparisonPeriod)
      ai == convert_mins_to_sql_time(alertInterval)
      recent_sales == query_genre_sales(tbl, genre, comparisonPeriod)
      historic_sales ==
        query_historic_genre_sales(tbl, genre, comparisonPeriod, alertInterval)
      q1 == <<Q("query_genre_sales", genre)>>
      q2 == q1 \o <<Q("query_historic_genre_sales", genre)>>
      none == [raised |-> "none", log |-> <<>>, delta |-> NoDelta]
  IN IF cp.raised # "none" THEN [none EXCEPT !.raised = cp.raised]
     ELSE IF dbfail = 1 \/ Malformed(cp.text)
       THEN [none EXCEPT !.raised = "psycopg2.Error", !.log = q1]
     ELSE IF ai.raised # "none" THEN [none EXCEPT !.raised = ai.raised, !.log = q1]
     ELSE IF dbfail = 2 \/ Malformed(ai.text)
       THEN [none EXCEPT !.raised = "psycopg2.Error", !.log = q2]
     ELSE IF historic_sales = 0
       THEN [none EXCEPT !.raised = "ZeroDivisionError", !.log = q2]
     ELSE [raised |-> "none", log |-> q2,
           delta |-> PercentDelta(recent_sales, historic_sales)]

\* >= in place of >
ExceedsThresholdOrEqual(sales_delta) ==
  sales_delta.num >= GENRE_NOTIFICATION_THRESHOLD * sales_delta.den

\* if sales_delta > GENRE_NOTIFICATION_THRESHOLD (the divisor is positive)
ExceedsThreshold(sales_delta) ==
  sales_delta.num > GENRE_NOTIFICATION_THRESHOLD * sales_delta.den

\* the subscriber query of the genre run once more after the messages went
\* out, and failing then
AlertGenreRefetch(genre, dbfail, k, t) ==
  LET c == calculate_genre_sales_delta(sale, genre, dbfail)
      q3 == c.log \o <<Q("get_genre_subscriber_emails", genre)>>
      emails == get_genre_subscriber_emails(subscriber, genre)
      sent == SendLoop("GenreGrowth", emails, genre, c.delta, 1, k, t)
  IN IF c.raised # "none"
       THEN [raised |-> c.raised, log |-> c.log, delta |-> NoDelta, out |-> <<>>]
     ELSE IF ~ExceedsThreshold(c.delta)
       THEN [raised |-> "none", log |-> c.log, delta |-> c.delta, out |-> <<>>]
     ELSE [raised |-> IF dbfail = 3 THEN "psycopg2.Error" ELSE sent.raised,
           log |-> IF dbfail = 3 THEN q3 \o q3 ELSE q3,
           delta |-> c.delta, out |-> sent.out]

\* one iteration of the loop of alert_subscribed_genres, for genre
AlertGenre(genre, dbfail, k, t) ==
  LET c == calculate_genre_sales_delta(sale, genre, dbfail)
      q3 == c.log \o <<Q("get_genre_subscriber_emails", genre)>>
      emails == get_genre_subscriber_emails(subscriber, genre)
  IN IF c.raised # "none"
       THEN [raised |-> c.raised, log |-> c.log, delta |-> NoDelta, out |-> <<>>]
     ELSE IF ~ExceedsThreshold(c.delta)
       THEN [raised |-> "none", log |-> c.log, delta |-> c.delta, out |-> <<>>]
     ELSE IF dbfail = 3
       THEN [raised |-> "psycopg2.Error", log |-> q3, delta |-> c.delta,
             out |-> <<>>]
     ELSE LET sent == SendLoop("GenreGrowth", emails, genre, c.delta, 1, k, t)
          IN [raised |-> sent.raised, log |-> q3, delta |-> c.delta,
              out |-> sent.out]

\* ---------------------------------------------------------------------
\* Initial states
\* ---------------------------------------------------------------------
TimeConfigs ==
  {<<ALERT_INTERVAL, COMPARISON_PERIOD>>, <<0, COMPARISON_PERIOD>>,
   <<ALERT_INTERVAL, 0>>, <<1, COMPARISON_PERIOD>>, <<1, 1>>}

\* subscriber tables: every choice of the general-alert flags, and every
\* choice of the followed genres
SubscriberTables ==
  {[i \in Emails |-> [alert |-> a[i], genres |-> FullSubscribers[i].genres]] :
     a \in [Emails -> BOOLEAN]}
  \cup
  {[i \in Emails |-> [alert |-> TRUE, genres |-> g[i]]] :
     g \in [Emails -> SUBSET Genres]}

\* what a run starts from, under the full subscriber table: every small
\* sale table and every larger table of recent sales of the first release,
\* without a fault, and every fault with every small table of recent sales;
\* under the smallest tables of recent sales, every subscriber table and
\* every time configuration; the store sweep also has every table with at
\* most one recent sale of each kind
Databases ==
  {[sale |-> s, subscriber |-> FullSubscribers,
    time |-> <<ALERT_INTERVAL, COMPARISON_PERIOD>>, fault |-> NoFault] :
     s \in SaleTables(Slots, MaxSmallSales)
           \cup SaleTables({x \in RecentSlots : SlotSeq[x].release_id = 1},
                           MaxSales)
           \cup UnitTables}
  \cup
  {[sale |-> s, subscriber |-> u, time |-> <<ALERT_INTERVAL, COMPARISON_PERIOD>>,
    fault |-> NoFault] :
     s \in SaleTables(RecentSlots, MaxTinySales), u \in SubscriberTables}
  \cup
  {[sale |-> s, subscriber |-> FullSubscribers, time |-> c, fault |-> NoFault] :
     s \in SaleTables(RecentSlots, MaxTinySales), c \in TimeConfigs}
  \cup
  {[sale |-> s, subscriber |-> FullSubscribers,
    time |-> <<ALERT_INTERVAL, COMPARISON_PERIOD>>, fault |-> f] :
     s \in SaleTables(RecentSlots, MaxSmallSales), f \in Faults}

\* the environment after load_dotenv(): every variable set, or, for the
\* sale tables of the first release with or without a refused connection,
\* any of the required variables missing
Environments ==
  {[db |-> d, environ |-> RequiredVars \cup EmailVars] : d \in Databases}
  \cup
  {[db |-> [sale |-> s, subscriber |-> FullSubscribers,
            time |-> <<ALERT_INTERVAL, COMPARISON_PERIOD>>, fault |-> f],
    environ |-> e \cup EmailVars] :
     s \in SaleTables({x \in RecentSlots : SlotSeq[x].release_id = 1},
                      MaxTinySales),
     f \in {NoFault, [NoFault EXCEPT !.step = "get_connection", !.dbfail = 1]},
     e \in (SUBSET RequiredVars) \ {RequiredVars}}

\* the pipeline is not running
NoFeed == [net |-> "none"]

NotExtracted == [by |-> "none"]

\* the tables the pipeline writes, without a row
NoTables ==
  [country |-> <<>>, artist |-> <<>>, genre |-> <<>>, type |-> <<>>,
   release |-> <<>>, release_genre |-> <<>>, sale |-> <<>>]

NoLoadFault == [connect |-> "ok", cursor |-> "ok", failAt |-> 0]

NoCall == [fn |-> "none"]

\* the report handler is not running
ReportNotInvoked ==
  /\ report = [pc |-> "not_invoked", trail |-> <<>>, recipients |-> <<>>,
               sent |-> <<>>, raised |-> "none", status |-> 0]
  /\ reportFault = [step |-> "none", raises |-> "none", at |-> 0]

\* nobody is on the subscribe page
DashboardNotInvoked ==
  /\ rds = [subscriber |-> {}, subscriber_genre |-> {}]
  /\ onDelete = "no action"
  /\ pageCall = NoCall

\* main_load is not running
LoadNotInvoked ==
  /\ frame = <<>>
  /\ loadFault = NoLoadFault
  /\ cursor = [tables |-> NoTables, statements |-> <<>>, aborted |-> FALSE,
               log |-> <<>>]
  /\ durable = NoTables
  /\ load = [pc |-> "not_invoked", row |-> 0, conn |-> "none",
             raised |-> "none", parsed |-> FALSE, commits |-> 0,
             processed |-> <<>>]

\* nothing was invoked before the first invocation
NoRun == [outbox |-> <<>>, metric |-> <<>>, queryLog |-> <<>>, exc |-> "none",
          status |-> 0]

\* lambda_handler is about to call main() for the first time, in one of the
\* environments of E
Start(E) ==
  /\ \E r \in E :
       /\ sale = r.db.sale
       /\ subscriber = r.db.subscriber
       /\ alertInterval = r.db.time[1]
       /\ comparisonPeriod = r.db.time[2]
       /\ fault = r.db.fault
       /\ environ = r.environ
  /\ pc = "get_connection"
  /\ conn = "none"
  /\ exc = "none"
  /\ metric = [top_artist |-> NotFetched, historic_top_artist |-> NotFetched,
               top_genre |-> NotFetched, historic_top_genre |-> NotFetched]
  /\ deltas = [g \in Genres |-> NoDelta]
  /\ remaining = {}
  /\ done = {}
  /\ queryLog = <<>>
  /\ outbox = <<>>
  /\ status = 0
  /\ run = 1
  /\ previous = NoRun
  /\ feed = NoFeed
  /\ extracted = NotExtracted
  /\ LoadNotInvoked
  /\ DashboardNotInvoked
  /\ ReportNotInvoked

Init == Start(Environments)

\* ---------------------------------------------------------------------
\* main(), step by step
\* ---------------------------------------------------------------------
\* where main continues after a step that raised / returned
After(raised, next) == IF raised = "none" THEN next ELSE "raised"

\* db_conn = get_connection(); db_cursor = get_cursor(db_conn).
\* psycopg2.connect is called with environ.get(...) of each parameter, None
\* for a variable that is not set: libpq then falls back on its defaults
\* and the attempt succeeds or raises OperationalError as the fault says.
GetConnection ==
  /\ pc = "get_connection"
  /\ IF FaultAt("get_connection").dbfail = 0
       THEN conn' = "open" /\ exc' = "none" /\ pc' = "alert_top_artist_change"
       ELSE conn' = "none" /\ exc' = "psycopg2.OperationalError" /\ pc' = "raised"
  /\ UNCHANGED <<reportvars, dashvars, dbvars, runvars, pipevars, loadvars, metric, deltas, remaining, done, queryLog, outbox, status>>

\* alert_top_artist_change(db_cursor)
AlertTopArtistChange ==
  /\ pc = "alert_top_artist_change"
  /\ LET curRows == query_top_artist(sale, comparisonPeriod)
         histRows == query_historic_top_artist(sale, comparisonPeriod, alertInterval)
         f == FaultAt("alert_top_artist_change")
     IN \E cur \in Fetched(curRows), hist \in Fetched(histRows) :
          LET r == AlertTopChange("TopArtistChanged", "query_top_artist",
                                  "query_historic_top_artist", curRows, histRows,
                                  cur, hist, TopArtistChanged(cur, hist),
                                  f.dbfail, f.k, f.t)
          IN /\ metric' = [metric EXCEPT !.top_artist = r.top,
                                         !.historic_top_artist = r.historic]
             /\ queryLog' = queryLog \o r.log
             /\ outbox' = outbox \o r.out
             /\ exc' = r.raised
             /\ done' = IF r.raised = "none" THEN done \cup {"top_artist"} ELSE done
             /\ pc' = After(r.raised, "alert_top_genre_change")
  /\ UNCHANGED <<reportvars, dashvars, dbvars, runvars, pipevars, loadvars, conn, deltas, remaining, status>>

\* alert_top_genre_change(db_cursor)
AlertTopGenreChange ==
  /\ pc = "alert_top_genre_change"
  /\ LET curRows == query_top_genre(sale, comparisonPeriod)
         histRows == query_historic_top_genre(sale, comparisonPeriod, alertInterval)
         f == FaultAt("alert_top_genre_change")
     IN \E cur \in Fetched(curRows), hist \in Fetched(histRows) :
          LET r == AlertTopChange("TopGenreChanged", "query_top_genre",
                                  "query_historic_top_genre", curRows, histRows,
                                  cur, hist, TopGenreChanged(cur, hist),
                                  f.dbfail, f.k, f.t)
          IN /\ metric' = [metric EXCEPT !.top_genre = r.top,
                                         !.historic_top_genre = r.historic]
             /\ queryLog' = queryLog \o r.log
             /\ outbox' = outbox \o r.out
             /\ exc' = r.raised
             /\ done' = IF r.raised = "none" THEN done \cup {"top_genre"} ELSE done
             /\ pc' = After(r.raised, "alert_subscribed_genres")
  /\ UNCHANGED <<reportvars, dashvars, dbvars, runvars, pipevars, loadvars, conn, deltas, remaining, status>>

\* alert_subscribed_genres(db_cursor): genres = get_subscribed_genres(cursor)
GetSubscribedGenres ==
  /\ pc = "alert_subscribed_genres"
  /\ queryLog' = queryLog \o <<Q("get_subscribed_genres", "")>>
  /\ LET genres == get_subscribed_genres(subscriber)
     IN IF FaultAt("get_subscribed_genres").dbfail = 0
          THEN /\ remaining' = genres
               /\ exc' = "none"
               /\ done' = IF genres = {} THEN done \cup {"subscribed_genres"} ELSE done
               /\ pc' = IF genres = {} THEN "close" ELSE "for_genre"
          ELSE /\ remaining' = {}
               /\ exc' = "psycopg2.Error"
               /\ done' = done
               /\ pc' = "raised"
  /\ UNCHANGED <<reportvars, dashvars, dbvars, runvars, pipevars, loadvars, conn, metric, deltas, outbox, status>>

\* alert_subscribed_genres(db_cursor): one iteration of "for genre in genres";
\* the rows of SELECT DISTINCT come in an order the database chooses
AlertSubscribedGenre ==
  /\ pc = "for_genre"
  /\ \E genre \in remaining :
       LET f == FaultAt(genre)
           r == AlertGenre(genre, f.dbfail, f.k, f.t)
           last == remaining = {genre}
       IN /\ remaining' = remaining \ {genre}
          /\ deltas' = [deltas EXCEPT ![genre] = r.delta]
          /\ queryLog' = queryLog \o r.log
          /\ outbox' = outbox \o r.out
          /\ exc' = r.raised
          /\ done' = IF r.raised = "none" /\ last
                       THEN done \cup {"subscribed_genres"} ELSE done
          /\ pc' = After(r.raised, IF last THEN "close" ELSE "for_genre")
  /\ UNCHANGED <<reportvars, dashvars, dbvars, runvars, pipevars, loadvars, conn, metric, status>>

\* db_conn.close(), the last statement of main
CloseConnection ==
  /\ pc = "close"
  /\ conn' = "closed"
  /\ pc' = "returned"
  /\ UNCHANGED <<reportvars, dashvars, dbvars, runvars, pipevars, loadvars, exc, metric, deltas, remaining, done, queryLog, outbox,
                 status>>

\* ---------------------------------------------------------------------
\* lambda_handler around main()
\* ---------------------------------------------------------------------
\* the except clause of lambda_handler
HandlerCatches(e) == e = "ValueError"

\* main() returned: {"statusCode": 200, ...}
ReturnSuccess ==
  /\ pc = "returned"
  /\ status' = 200
  /\ pc' = "handler_returned"
  /\ UNCHANGED <<reportvars, dashvars, dbvars, runvars, pipevars, loadvars, conn, exc, metric, deltas, remaining, done, queryLog,
                 outbox>>

\* main() raised an exception the handler catches: {"statusCode": 500, ...}
ReturnError ==
  /\ pc = "raised"
  /\ HandlerCatches(exc)
  /\ status' = 500
  /\ pc' = "handler_returned"
  /\ UNCHANGED <<reportvars, dashvars, dbvars, runvars, pipevars, loadvars, conn, exc, metric, deltas, remaining, done, queryLog,
                 outbox>>

\* main() raised an exception the handler does not catch: it leaves
\* lambda_handler and no status is returned
Escape ==
  /\ pc = "raised"
  /\ ~HandlerCatches(exc)
  /\ pc' = "handler_raised"
  /\ UNCHANGED <<reportvars, dashvars, dbvars, runvars, pipevars, loadvars, conn, exc, metric, deltas, remaining, done, queryLog,
                 outbox, status>>

Next ==
  \/ GetConnection
  \/ AlertTopArtistChange
  \/ AlertTopGenreChange
  \/ GetSubscribedGenres
  \/ AlertSubscribedGenre
  \/ CloseConnection
  \/ ReturnSuccess
  \/ ReturnError
  \/ Escape

Spec == Init /\ [][Next]_vars

\* ---------------------------------------------------------------------
\* The extract step of the pipeline
\* ---------------------------------------------------------------------
\* the kinds of item a sale event of the feed is about
ItemTypes == {"t", "a", "p"}

RECURSIVE Events(_)
\* the lists of at most n sale events
Events(n) ==
  IF n = 0 THEN {<<>>}
  ELSE Events(n - 1) \cup
       {e \o <<[event_type |-> "sale", item_type |-> i]>> :
          e \in {x \in Events(n - 1) : Len(x) = n - 1}, i \in ItemTypes}

\* what the body of an answer parses to: not JSON at all, null, an empty
\* object, or a feed with its events
Bodies ==
  {[json |-> "invalid"], [json |-> "null"], [json |-> "object", keys |-> {}]}
  \cup {[json |-> "object", keys |-> {"feed_data"}, events |-> e] :
          e \in Events(MaxEvents)}

\* what can happen to GET https://bandcamp.com/api/salesfeed/1/get_initial
Feeds ==
  {[net |-> "timeout"], [net |-> "connection"]}
  \cup {[net |-> "ok", status |-> st, content_type |-> ct, body |-> b] :
          st \in {200, 404, 500},
          ct \in {"application/json", "text/html"},
          b \in Bodies}

\* bool(sales_data)
Truthy(value) == value.json = "object" /\ value.keys # {}

\* get_sales_information of src/extract.py: requests.get without timeout,
\* a warning for a status other than 200, then response.json() whatever
\* the status
get_sales_information_requests(f) ==
  IF f.net = "timeout" THEN [raised |-> "requests.Timeout"]
  ELSE IF f.net = "connection" THEN [raised |-> "requests.ConnectionError"]
  ELSE IF f.body.json = "invalid" THEN [raised |-> "requests.JSONDecodeError"]
  ELSE [raised |-> "none", value |-> f.body, warned |-> f.status # 200]

\* get_sales_information of src/pipeline/extract.py:
\* asyncio.run(fetch_data(url)), where aiohttp's response.json() refuses a
\* content type other than JSON and nothing looks at the status; a value
\* that is not truthy raises Exception
get_sales_information(f) ==
  IF f.net = "timeout" THEN [raised |-> "asyncio.TimeoutError"]
  ELSE IF f.net = "connection" THEN [raised |-> "aiohttp.ClientConnectorError"]
  ELSE IF f.content_type # "application/json"
    THEN [raised |-> "aiohttp.ContentTypeError"]
  ELSE IF f.body.json = "invalid" THEN [raised |-> "json.JSONDecodeError"]
  ELSE IF Truthy(f.body) THEN [raised |-> "none", value |-> f.body]
  ELSE [raised |-> "Exception"]

\* python extract.py: the script of src/extract.py
RunExtractScript ==
  /\ feed # NoFeed
  /\ extracted = NotExtracted
  /\ extracted' = [by |-> "extract.py", got |-> get_sales_information_requests(feed)]
  /\ UNCHANGED <<reportvars, dashvars, dbvars, runvars, loadvars, feed, pc, conn, exc, metric, deltas,
                 remaining, done, queryLog, outbox, status>>

\* main_extract() of src/pipeline/extract.py
MainExtract ==
  /\ feed # NoFeed
  /\ extracted = NotExtracted
  /\ extracted' = [by |-> "pipeline/extract.py", got |-> get_sales_information(feed)]
  /\ UNCHANGED <<reportvars, dashvars, dbvars, runvars, loadvars, feed, pc, conn, exc, metric, deltas,
                 remaining, done, queryLog, outbox, status>>

\* the pipeline is about to extract, under any answer of the feed; no alert
\* run is under way
ExtractInit ==
  /\ feed \in Feeds
  /\ extracted = NotExtracted
  /\ sale = [s \in Slots |-> 0]
  /\ subscriber = FullSubscribers
  /\ alertInterval = ALERT_INTERVAL
  /\ comparisonPeriod = COMPARISON_PERIOD
  /\ fault = NoFault
  /\ environ = RequiredVars \cup EmailVars
  /\ pc = "not_invoked"
  /\ conn = "none"
  /\ exc = "none"
  /\ metric = [top_artist |-> NotFetched, historic_top_artist |-> NotFetched,
               top_genre |-> NotFetched, historic_top_genre |-> NotFetched]
  /\ deltas = [g \in Genres |-> NoDelta]
  /\ remaining = {}
  /\ done = {}
  /\ queryLog = <<>>
  /\ outbox = <<>>
  /\ status = 0
  /\ run = 1
  /\ previous = NoRun
  /\ LoadNotInvoked
  /\ DashboardNotInvoked
  /\ ReportNotInvoked

ExtractNext == RunExtractScript \/ MainExtract

ExtractSpec == ExtractInit /\ [][ExtractNext]_vars

\* ---------------------------------------------------------------------
\* The load step of the pipeline
\* ---------------------------------------------------------------------
\* the run of the alerts is not under way
AlertsNotInvoked ==
  /\ sale = [s \in Slots |-> 0]
  /\ subscriber = FullSubscribers
  /\ alertInterval = ALERT_INTERVAL
  /\ comparisonPeriod = COMPARISON_PERIOD
  /\ fault = NoFault
  /\ pc = "not_invoked"
  /\ conn = "none"
  /\ exc = "none"
  /\ metric = [top_artist |-> NotFetched, historic_top_artist |-> NotFetched,
               top_genre |-> NotFetched, historic_top_genre |-> NotFetched]
  /\ deltas = [g \in Genres |-> NoDelta]
  /\ remaining = {}
  /\ done = {}
  /\ queryLog = <<>>
  /\ outbox = <<>>
  /\ status = 0
  /\ run = 1
  /\ previous = NoRun

\* the extract step is not under way
ExtractNotInvoked == feed = NoFeed /\ extracted = NotExtracted

\* the rows a sales frame is made of. release_type is "album" or "track"
\* after the transform, NaN for any other item type; the genres cell is the
\* text of a list, or a list object as the transform leaves it
RowKinds ==
  <<[country |-> "UK", artist_name |-> "A", release_name |-> "r1",
     release_type |-> "album", genres |-> <<"rock">>, cell |-> "str"],
    [country |-> "UK", artist_name |-> "A", release_name |-> "r1",
     release_type |-> "album", genres |-> <<"rock", "jazz">>, cell |-> "str"],
    [country |-> "US", artist_name |-> "B", release_name |-> "r2",
     release_type |-> "nan", genres |-> <<"rock">>, cell |-> "str"],
    [country |-> "US", artist_name |-> "B", release_name |-> "r2",
     release_type |-> "track", genres |-> <<"Rock">>, cell |-> "str"],
    [country |-> "US", artist_name |-> "A", release_name |-> "r1",
     release_type |-> "album", genres |-> <<"jazz">>, cell |-> "list"]>>

RECURSIVE Frames(_)
\* the frames of at most n rows
Frames(n) ==
  IF n = 0 THEN {<<>>}
  ELSE Frames(n - 1) \cup
       {f \o <<RowKinds[k]>> :
          f \in {x \in Frames(n - 1) : Len(x) = n - 1}, k \in DOMAIN RowKinds}

\* str.title() of a genre name of the frame
StrTitle(name) == IF name \in {"rock", "Rock"} THEN "Rock" ELSE "Jazz"

\* the id of the first row of the table that equals value, 0 (None) when
\* there is none; ids are the positions of the rows
IdOf(table, value) ==
  IF \E i \in DOMAIN table : table[i] = value
    THEN CHOOSE i \in DOMAIN table :
           table[i] = value /\ \A j \in DOMAIN table : table[j] = value => i <= j
    ELSE 0

\* the next cursor.execute raises psycopg2.Error: it is the failing
\* statement of this load, or the transaction is already aborted
Fails(c) == c.aborted \/ Len(c.statements) + 1 = loadFault.failAt

\* cursor.execute(statement, args)
Execute(c, op, table, args) ==
  [c EXCEPT !.statements = Append(@, [op |-> op, table |-> table, args |-> args]),
            !.aborted = Fails(c)]

\* logging.error(message)
Logged(c, message) == [c EXCEPT !.log = Append(@, message)]

\* get_id_from_table(search_value, table_name, cursor)
get_id_from_table(search_value, table_name, c) ==
  LET c1 == Execute(c, "SELECT", table_name, <<search_value>>)
  IN IF Fails(c)
       THEN [c |-> Logged(c1, "Error querying"), id |-> 0]
       ELSE [c |-> c1, id |-> IdOf(c.tables[table_name], search_value)]

\* the INSERT issued whatever the lookup found
insert_country_blind(country_name, c) ==
  LET c1 == Execute(c, "SELECT", "country", <<country_name>>)
      c2 == Execute(c1, "INSERT", "country", <<country_name>>)
  IN IF Fails(c) THEN Logged(c1, "Error inserting country")
     ELSE IF Fails(c1) THEN Logged(c2, "Error inserting country")
     ELSE [c2 EXCEPT !.tables.country = Append(@, country_name)]

\* insert_country(country_name, cursor)
insert_country(country_name, c) ==
  LET c1 == Execute(c, "SELECT", "country", <<country_name>>)
      c2 == Execute(c1, "INSERT", "country", <<country_name>>)
  IN IF Fails(c) THEN Logged(c1, "Error inserting country")
     ELSE IF IdOf(c.tables.country, country_name) # 0 THEN c1
     ELSE IF Fails(c1) THEN Logged(c2, "Error inserting country")
     ELSE [c2 EXCEPT !.tables.country = Append(@, country_name)]

\* insert_artist(artist_name, cursor)
insert_artist(artist_name, c) ==
  LET c1 == Execute(c, "SELECT", "artist", <<artist_name>>)
      c2 == Execute(c1, "INSERT", "artist", <<artist_name>>)
  IN IF Fails(c) THEN Logged(c1, "Error inserting artist")
     ELSE IF IdOf(c.tables.artist, artist_name) # 0 THEN c1
     ELSE IF Fails(c1) THEN Logged(c2, "Error inserting artist")
     ELSE [c2 EXCEPT !.tables.artist = Append(@, artist_name)]

\* insert_genres(genre_name, cursor): the genre_id, 0 for None
insert_genres(genre_name, c) ==
  LET c1 == Execute(c, "SELECT", "genre", <<genre_name>>)
      c2 == Execute(c1, "INSERT", "genre", <<genre_name>>)
      found == IdOf(c.tables.genre, genre_name)
  IN IF Fails(c) THEN [c |-> Logged(c1, "Error inserting genre"), id |-> 0]
     ELSE IF found # 0 THEN [c |-> c1, id |-> found]
     ELSE IF Fails(c1) THEN [c |-> Logged(c2, "Error inserting genre"), id |-> 0]
     ELSE [c |-> [c2 EXCEPT !.tables.genre = Append(@, genre_name)],
           id |-> Len(c.tables.genre) + 1]

\* insert_release(release_name, release_date, release_type, artist_name,
\* cursor): the release_id, 0 for None
insert_release(row, c) ==
  LET a == get_id_from_table(row.artist_name, "artist", c)
      t == get_id_from_table(row.release_type, "type", a.c)
      info == [release_name |-> row.release_name, artist_id |-> a.id,
               type_id |-> t.id]
      c3 == Execute(t.c, "SELECT", "release", <<info>>)
      c4 == Execute(c3, "INSERT", "release", <<info>>)
      found == IdOf(t.c.tables.release, info)
  IN IF a.id = 0 THEN [c |-> t.c, id |-> 0]
     ELSE IF t.id = 0 THEN [c |-> t.c, id |-> 0]
     ELSE IF Fails(t.c) THEN [c |-> Logged(c3, "Error inserting release"), id |-> 0]
     ELSE IF found # 0 THEN [c |-> c3, id |-> found]
     ELSE IF Fails(c3) THEN [c |-> Logged(c4, "Error inserting release"), id |-> 0]
     ELSE [c |-> [c4 EXCEPT !.tables.release = Append(@, info)],
           id |-> Len(c3.tables.release) + 1]

\* insert_release_genres(release_id, genre_id, genre_name, release_name,
\* cursor)
insert_release_genres(release_id, genre_id, c) ==
  LET pair == [release_id |-> release_id, genre_id |-> genre_id]
      c1 == Execute(c, "SELECT", "release_genre", <<pair>>)
      c2 == Execute(c1, "INSERT", "release_genre", <<pair>>)
  IN IF Fails(c) THEN Logged(c1, "Error adding genre to release")
     ELSE IF IdOf(c.tables.release_genre, pair) # 0 THEN c1
     ELSE IF Fails(c1) THEN Logged(c2, "Error adding genre to release")
     ELSE [c2 EXCEPT !.tables.release_genre = Append(@, pair)]

\* insert_sale_data(sale_price, sale_date, country_name, release_id,
\* cursor); the price and date of a sale are those of row i of the frame
insert_sale_data(i, country_name, release_id, c) ==
  LET n == get_id_from_table(country_name, "country", c)
      row == [row |-> i, country_id |-> n.id, release_id |-> release_id]
      c2 == Execute(n.c, "INSERT", "sale", <<row>>)
  IN IF Fails(n.c) THEN Logged(c2, "Error adding purchase")
     ELSE [c2 EXCEPT !.tables.sale = Append(@, row)]

RECURSIVE GenreLoop(_, _, _, _)
\* for genre in row["genres"], from the k-th genre on
GenreLoop(release_id, genres, k, c) ==
  IF k > Len(genres) THEN c
  ELSE LET g == insert_genres(StrTitle(genres[k]), c)
       IN GenreLoop(release_id, genres, k + 1,
                    IF g.id # 0
                      THEN insert_release_genres(release_id, g.id, g.c)
                      ELSE g.c)

\* release_id of the iteration for row i: what insert_release returned
ReleaseOfRow(i, c) ==
  insert_release(frame[i],
                 insert_artist(frame[i].artist_name,
                               insert_country(frame[i].country, c))).id

\* the sale inserted before the release is looked at
LoadRowSaleFirst(i, c) ==
  LET row == frame[i]
      c1 == insert_artist(row.artist_name, insert_country(row.country, c))
      r == insert_release(row, c1)
  IN insert_sale_data(i, row.country, r.id, r.c)

\* one iteration of "for _, row in sales_df.iterrows()", for row i
LoadRow(i, c) ==
  LET row == frame[i]
      c1 == insert_artist(row.artist_name, insert_country(row.country, c))
      r == insert_release(row, c1)
  IN IF r.id = 0 THEN r.c
     ELSE insert_sale_data(i, row.country, r.id,
                           GenreLoop(r.id, row.genres, 1, r.c))

\* main_load(sales_df): validate_env_vars() raises out of main_load
LoadValidate ==
  /\ load.pc = "validate_env_vars"
  /\ load' = IF validate_env_vars(environ) = "none"
               THEN [load EXCEPT !.pc = "get_connection"]
               ELSE [load EXCEPT !.pc = "raised",
                                 !.raised = validate_env_vars(environ)]
  /\ UNCHANGED <<reportvars, dashvars, dbvars, runvars, pipevars, alertvars, frame, loadFault, cursor,
                 durable>>

\* main_load going on after get_connection returned None
LoadGetConnectionGoesOn ==
  /\ load.pc = "get_connection"
  /\ load' = [load EXCEPT !.pc = "get_cursor",
                          !.conn = IF loadFault.connect = "ok" THEN "open" ELSE "none"]
  /\ cursor' = cursor
  /\ UNCHANGED <<reportvars, dashvars, dbvars, runvars, pipevars, alertvars, frame, loadFault, durable>>

\* connection = get_connection(): None after psycopg2.OperationalError, and
\* then main_load logs the failure and returns
LoadGetConnection ==
  /\ load.pc = "get_connection"
  /\ IF loadFault.connect = "ok"
       THEN /\ load' = [load EXCEPT !.pc = "get_cursor", !.conn = "open"]
            /\ cursor' = cursor
       ELSE /\ load' = [load EXCEPT !.pc = "returned"]
            /\ cursor' = Logged(cursor, "Database connection failed. Exiting.")
  /\ UNCHANGED <<reportvars, dashvars, dbvars, runvars, pipevars, alertvars, frame, loadFault, durable>>

\* cursor = get_cursor(connection): logs and raises again what
\* connection.cursor() raises
LoadGetCursor ==
  /\ load.pc = "get_cursor"
  /\ IF loadFault.cursor = "ok"
       THEN /\ load' = [load EXCEPT !.pc = "literal_eval"]
            /\ cursor' = cursor
       ELSE /\ load' = [load EXCEPT !.pc = "raised", !.raised = "Exception"]
            /\ cursor' = Logged(cursor, "Unable to retrieve cursor for connection")
  /\ UNCHANGED <<reportvars, dashvars, dbvars, runvars, pipevars, alertvars, frame, loadFault, durable>>

\* sales_df["genres"].apply(ast.literal_eval): ValueError for a cell that
\* is not a string, caught by the except Exception of main_load
LoadParseGenres ==
  /\ load.pc = "literal_eval"
  /\ IF \E i \in DOMAIN frame : frame[i].cell # "str"
       THEN /\ load' = [load EXCEPT !.pc = "returned", !.parsed = TRUE]
            /\ cursor' = Logged(cursor, "Error during data loading")
       ELSE /\ load' = [load EXCEPT !.pc = IF frame = <<>> THEN "commit" ELSE "row",
                                    !.row = IF frame = <<>> THEN 0 ELSE 1,
                                    !.parsed = TRUE]
            /\ cursor' = cursor
  /\ UNCHANGED <<reportvars, dashvars, dbvars, runvars, pipevars, alertvars, frame, loadFault, durable>>

\* the body of the loop for the next row; processed keeps, for each row
\* the loop has been through, its release_id and the number of statements
\* executed when its iteration ended
LoadNextRow ==
  /\ load.pc = "row"
  /\ cursor' = LoadRow(load.row, cursor)
  /\ LET this == [release_id |-> ReleaseOfRow(load.row, cursor),
                  upto |-> Len(cursor'.statements)]
     IN load' = IF load.row = Len(frame)
                  THEN [load EXCEPT !.pc = "commit",
                                    !.processed = Append(@, this)]
                  ELSE [load EXCEPT !.row = @ + 1,
                                    !.processed = Append(@, this)]
  /\ UNCHANGED <<reportvars, dashvars, dbvars, runvars, pipevars, alertvars, frame, loadFault, durable>>

\* connection.commit(); connection.close(): the commit of an aborted
\* transaction rolls it back
LoadCommit ==
  /\ load.pc = "commit"
  /\ durable' = IF cursor.aborted THEN durable ELSE cursor.tables
  /\ cursor' = [cursor EXCEPT !.tables = durable', !.aborted = FALSE]
  /\ load' = [load EXCEPT !.pc = "returned", !.conn = "closed",
                          !.commits = @ + 1]
  /\ UNCHANGED <<reportvars, dashvars, dbvars, runvars, pipevars, alertvars, frame, loadFault>>

\* the type table as deployed, and what earlier loads left in the others
SeededTables ==
  {[NoTables EXCEPT !.type = <<"album", "track">>],
   [NoTables EXCEPT !.type = <<"album", "track">>, !.country = <<"UK">>,
                    !.artist = <<"A">>, !.genre = <<"Rock">>,
                    !.release = <<[release_name |-> "r1", artist_id |-> 1,
                                   type_id |-> 1]>>,
                    !.release_genre = <<[release_id |-> 1, genre_id |-> 1]>>]}

\* what can go wrong in a load: the connection refused, no cursor, or one
\* statement failing
LoadFaults ==
  {[NoLoadFault EXCEPT !.connect = "refused"],
   [NoLoadFault EXCEPT !.cursor = "error"]}
  \cup {[NoLoadFault EXCEPT !.failAt = n] : n \in 0..MaxFailAt}

\* main_load is about to run on a frame, over tables earlier loads
\* committed
LoadInit ==
  /\ AlertsNotInvoked
  /\ ExtractNotInvoked
  /\ DashboardNotInvoked
  /\ ReportNotInvoked
  /\ frame \in Frames(MaxRows)
  /\ loadFault \in LoadFaults
  /\ environ \in {RequiredVars, RequiredVars \ {"DB_NAME"}}
  /\ durable \in SeededTables
  /\ cursor = [tables |-> durable, statements |-> <<>>, aborted |-> FALSE,
               log |-> <<>>]
  /\ load = [pc |-> "validate_env_vars", row |-> 0, conn |-> "none",
             raised |-> "none", parsed |-> FALSE, commits |-> 0,
             processed |-> <<>>]

LoadNext ==
  \/ LoadValidate
  \/ LoadGetConnection
  \/ LoadGetCursor
  \/ LoadParseGenres
  \/ LoadNextRow
  \/ LoadCommit

LoadSpec == LoadInit /\ [][LoadNext]_vars

\* ---------------------------------------------------------------------
\* The subscribe page of the dashboard
\* ---------------------------------------------------------------------
\* what a subscriber has chosen: the two flags and the genres followed
Profiles ==
  <<[alert |-> TRUE, report |-> FALSE, genres |-> {}],
    [alert |-> FALSE, report |-> TRUE, genres |-> {"rock"}],
    [alert |-> TRUE, report |-> TRUE, genres |-> Genres],
    [alert |-> FALSE, report |-> FALSE, genres |-> {"jazz"}]>>

\* the subscriber_id of the row of an email address
SubscriberId(e) == 10 + e

\* the two tables when the address e has the profile choice[e], or no row
\* when choice[e] = 0; subscriber_email is unique and every subscriber_genre
\* row belongs to a subscriber
SubscriberStore(choice) ==
  [subscriber |->
     {[subscriber_id |-> SubscriberId(e), subscriber_email |-> e,
       subscribe_alert |-> Profiles[choice[e]].alert,
       subscribe_report |-> Profiles[choice[e]].report] :
        e \in {x \in Emails : choice[x] # 0}},
   subscriber_genre |->
     {r \in [subscriber_id : {SubscriberId(e) : e \in Emails}, genre_id : Genres] :
        \E e \in Emails : /\ choice[e] # 0
                          /\ r.subscriber_id = SubscriberId(e)
                          /\ r.genre_id \in Profiles[choice[e]].genres}]

SubscriberStores ==
  {SubscriberStore(choice) : choice \in [Emails -> 0..Len(Profiles)]}

\* ON DELETE of the foreign key subscriber_genre.subscriber_id, if there is
\* one: the schema is not part of the sources
Schemas == {"no action", "cascade", "restrict"}

\* SELECT ... FROM subscriber WHERE subscriber_email = %s
RowsOfEmail(d, email) == {a \in d.subscriber : a.subscriber_email = email}

\* SELECT genre_id FROM subscriber_genre WHERE subscriber_id = %s
GenresOfId(d, sub_id) ==
  {r.genre_id : r \in {x \in d.subscriber_genre : x.subscriber_id = sub_id}}

\* True when the count is not zero
check_if_email_exists_positive(d, email) ==
  Cardinality(RowsOfEmail(d, email)) # 0

\* check_if_email_exists(email): count_email == 0
check_if_email_exists(d, email) ==
  Cardinality(RowsOfEmail(d, email)) = 0

\* delete_subscriber_genres(subscriber_id, conn, cursor)
delete_subscriber_genres(d, subscriber_id) ==
  [d EXCEPT !.subscriber_genre = {r \in @ : r.subscriber_id # subscriber_id}]

\* add_subscriber_genres(conn, cursor, subscriber_id, genres_subscribed)
add_subscriber_genres(d, subscriber_id, genres_subscribed) ==
  [d EXCEPT !.subscriber_genre =
     @ \cup {[subscriber_id |-> subscriber_id, genre_id |-> g] :
               g \in genres_subscribed}]

\* update_subscribed_genres(sub_id, selected_genre_ids, conn, cursor)
update_subscribed_genres(d, sub_id, selected_genre_ids) ==
  add_subscriber_genres(delete_subscriber_genres(d, sub_id), sub_id,
                        selected_genre_ids)

\* update_existing_subscriber_info(sub_id, general_alerts, daily_reports,
\* selected_genre_ids)
update_existing_subscriber_info(d, sub_id, general_alerts, daily_reports, selected_genre_ids) ==
  LET updated ==
        [d EXCEPT !.subscriber =
           {IF a.subscriber_id = sub_id
              THEN [a EXCEPT !.subscribe_alert = general_alerts,
                             !.subscribe_report = daily_reports]
              ELSE a : a \in @}]
  IN IF selected_genre_ids # {}
       THEN update_subscribed_genres(updated, sub_id, selected_genre_ids)
       ELSE updated

\* unsubscribe_user(email): DELETE ... RETURNING subscriber_id, commit,
\* fetchone(), delete_subscriber_genres of the id fetched
unsubscribe_user(d, email, schema) ==
  LET rows == RowsOfEmail(d, email)
      ids == {a.subscriber_id : a \in rows}
      referenced == \E r \in d.subscriber_genre : r.subscriber_id \in ids
      deleted ==
        [subscriber |-> d.subscriber \ rows,
         subscriber_genre |->
           IF schema = "cascade"
             THEN {r \in d.subscriber_genre : r.subscriber_id \notin ids}
             ELSE d.subscriber_genre]
  IN IF schema = "restrict" /\ referenced
       THEN [db |-> d, raised |-> "psycopg2.errors.ForeignKeyViolation"]
     ELSE IF rows = {}
       THEN [db |-> deleted, raised |-> "TypeError"]
     ELSE [db |-> delete_subscriber_genres(deleted, CHOOSE i \in ids : TRUE),
           raised |-> "none"]

\* what the queries of the alerts read from the two tables: the general
\* subscribers, and the genres each address follows
SubscriberView(d) ==
  [e \in Emails |->
     [alert |-> \E a \in RowsOfEmail(d, e) : a.subscribe_alert,
      genres |-> UNION {GenresOfId(d, a.subscriber_id) : a \in RowsOfEmail(d, e)}]]

\* a sale table on which the top artist changes and both genres grow by
\* more than the threshold
GrowingSales == <<0, 2, 0, 1, 0, 0, 2, 1, 0>>

\* new_user = check_if_email_exists(email)
CheckIfEmailExists ==
  /\ pageCall = NoCall
  /\ \E email \in Emails :
       pageCall' = [fn |-> "check_if_email_exists", email |-> email,
                    returned |-> check_if_email_exists(rds, email),
                    raised |-> "none", before |-> rds]
  /\ UNCHANGED <<reportvars, dbvars, runvars, pipevars, loadvars, alertvars, rds, onDelete>>

\* Save Preferences of a subscriber who is in the table
UpdateExistingSubscriberInfo ==
  /\ pageCall = NoCall
  /\ \E a \in rds.subscriber, general_alerts \in BOOLEAN, daily_reports \in BOOLEAN,
        selected_genre_ids \in SUBSET Genres :
       /\ rds' = update_existing_subscriber_info(rds, a.subscriber_id, general_alerts,
                                                 daily_reports, selected_genre_ids)
       /\ pageCall' = [fn |-> "update_existing_subscriber_info",
                       sub_id |-> a.subscriber_id,
                       general_alerts |-> general_alerts,
                       daily_reports |-> daily_reports,
                       selected_genre_ids |-> selected_genre_ids,
                       raised |-> "none", before |-> rds]
  /\ UNCHANGED <<reportvars, dbvars, runvars, pipevars, loadvars, alertvars, onDelete>>

\* the Unsubscribe button
UnsubscribeUser ==
  /\ pageCall = NoCall
  /\ \E email \in Emails :
       LET r == unsubscribe_user(rds, email, onDelete)
       IN /\ rds' = r.db
          /\ pageCall' = [fn |-> "unsubscribe_user", email |-> email,
                          raised |-> r.raised, before |-> rds]
  /\ UNCHANGED <<reportvars, dbvars, runvars, pipevars, loadvars, alertvars, onDelete>>

\* the next alert run after the Unsubscribe button: lambda_handler is
\* invoked over the tables as unsubscribe_user left them
StartAlerts ==
  /\ pageCall # NoCall
  /\ pageCall.fn = "unsubscribe_user"
  /\ pc = "not_invoked"
  /\ pc' = "get_connection"
  /\ subscriber' = SubscriberView(rds)
  /\ sale' = GrowingSales
  /\ \E c \in TimeConfigs : alertInterval' = c[1] /\ comparisonPeriod' = c[2]
  /\ UNCHANGED <<reportvars, dashvars, runvars, pipevars, loadvars, fault, environ, conn, exc,
                 metric, deltas, remaining, done, queryLog, outbox, status>>

\* somebody opens the subscribe page, over any subscriber tables
DashboardInit ==
  /\ AlertsNotInvoked
  /\ ExtractNotInvoked
  /\ LoadNotInvoked
  /\ ReportNotInvoked
  /\ environ = RequiredVars \cup EmailVars
  /\ rds \in SubscriberStores
  /\ onDelete \in Schemas
  /\ pageCall = NoCall

DashboardNext ==
  \/ CheckIfEmailExists
  \/ UpdateExistingSubscriberInfo
  \/ UnsubscribeUser
  \/ StartAlerts
  \/ Next

DashboardSpec == DashboardInit /\ [][DashboardNext]_vars

\* ---------------------------------------------------------------------
\* The daily report
\* ---------------------------------------------------------------------
\* the variables the report handler reads besides those of the database
ReportVars == {"SENDER_EMAIL", "S3_BUCKET"}

\* the steps of the report handler after the check of SENDER_EMAIL
ReportSteps == <<"generate", "upload", "fetch", "send">>

\* what a step of the handler can raise when it fails. generate_daily_report
\* is not part of the sources: it returns the path of the PDF or raises
StepFailures ==
  [generate |-> {"ValueError", "ClientError", "Exception"},
   upload |-> {"ClientError"},
   fetch |-> {"psycopg2.Error", "KeyError", "AttributeError"},
   send |-> {"ClientError", "FileNotFoundError"}]

\* a run of the handler meets at most one failure: the step, what it
\* raises, and for the send step the recipient at which SES refuses
NoReportFault == [step |-> "none", raises |-> "none", at |-> 0]

ReportFaults ==
  {NoReportFault}
  \cup UNION {{[step |-> ReportSteps[i], raises |-> e, at |-> 1] :
                  e \in StepFailures[ReportSteps[i]]} : i \in DOMAIN ReportSteps}

\* the except clauses of lambda_handler
ReportStatus(raised) ==
  IF raised = "none" THEN 200
  ELSE IF raised = "ValueError" THEN 400
  ELSE IF raised = "ClientError" THEN 503
  ELSE 500

\* get_report_subscriber_emails(cursor): SELECT subscriber_email FROM
\* subscriber WHERE subscribe_report = TRUE, in table order
get_report_subscriber_emails(d) ==
  TableOrder({a.subscriber_email : a \in {x \in d.subscriber : x.subscribe_report}})

\* the parameters of send_email_with_attachment
EmailerParameters == {"pdf_file", "recipient_emails", "subject", "body_text"}

\* the keywords lambda_handler calls it with
HandlerKeywords ==
  {"pdf_file", "recipient_emails", "subject", "body_text", "sender_email"}

\* send_email_with_attachment(**keywords): a keyword that is not a
\* parameter is a TypeError of the call; the body reads the file and sends
\* to the recipients one by one, raising again what SES raises
send_email_with_attachment(keywords, recipient_emails, f) ==
  IF keywords \ EmailerParameters # {}
    THEN [raised |-> "TypeError", sent |-> <<>>]
  ELSE IF f.step = "send" /\ f.raises # "ClientError"
    THEN [raised |-> f.raises, sent |-> <<>>]
  ELSE IF f.step = "send" /\ f.at <= Len(recipient_emails)
    THEN [raised |-> f.raises, sent |-> SubSeq(recipient_emails, 1, f.at - 1)]
  ELSE [raised |-> "none", sent |-> recipient_emails]

\* the handler leaves a step: on to the next one, or to the return of the
\* except clause that catches what was raised
ReportAfter(step, raised, next) ==
  IF raised = "none"
    THEN [report EXCEPT !.pc = next, !.trail = Append(@, step)]
    ELSE [report EXCEPT !.pc = "returned", !.trail = Append(@, step),
                        !.raised = raised, !.status = ReportStatus(raised)]

\* what the step raises in this run
ReportRaises(step) ==
  IF reportFault.step = step THEN reportFault.raises ELSE "none"

\* sender_email = environ.get("SENDER_EMAIL"); 500 when it is not set
ReportCheckSender ==
  /\ report.pc = "lambda_handler"
  /\ report' = IF "SENDER_EMAIL" \in environ
                 THEN [report EXCEPT !.pc = "generate"]
                 ELSE [report EXCEPT !.pc = "returned", !.status = 500]
  /\ UNCHANGED <<dbvars, runvars, pipevars, loadvars, dashvars, alertvars,
                 reportFault>>

\* pdf_file = generate_daily_report()
GenerateDailyReport ==
  /\ report.pc = "generate"
  /\ report' = ReportAfter("generate", ReportRaises("generate"), "upload")
  /\ UNCHANGED <<dbvars, runvars, pipevars, loadvars, dashvars, alertvars,
                 reportFault>>

\* upload_to_s3(pdf_file, s3_bucket, s3_object)
UploadToS3 ==
  /\ report.pc = "upload"
  /\ report' = ReportAfter("upload", ReportRaises("upload"), "fetch")
  /\ UNCHANGED <<dbvars, runvars, pipevars, loadvars, dashvars, alertvars,
                 reportFault>>

\* recipients = get_report_subscriber_emails(cursor), inside the two with
\* blocks; without recipients the handler returns 200
FetchRecipients ==
  /\ report.pc = "fetch"
  /\ LET raised == ReportRaises("fetch")
         recipients == get_report_subscriber_emails(rds)
         after == ReportAfter("fetch", raised, "send")
     IN report' = IF raised # "none" THEN after
                  ELSE IF recipients = <<>>
                    THEN [after EXCEPT !.pc = "returned", !.status = 200]
                  ELSE [after EXCEPT !.recipients = recipients]
  /\ UNCHANGED <<dbvars, runvars, pipevars, loadvars, dashvars, alertvars,
                 reportFault>>

\* send_email_with_attachment(pdf_file=..., recipient_emails=recipients,
\* subject=..., body_text=..., sender_email=sender_email), then 200
SendReport ==
  /\ report.pc = "send"
  /\ LET r == send_email_with_attachment(HandlerKeywords, report.recipients,
                                         reportFault)
         after == ReportAfter("send", r.raised, "returned")
     IN report' = [after EXCEPT !.sent = r.sent,
                                !.status = ReportStatus(r.raised)]
  /\ UNCHANGED <<dbvars, runvars, pipevars, loadvars, dashvars, alertvars,
                 reportFault>>

\* the report handler is invoked, over any subscriber tables, with or
\* without SENDER_EMAIL, under any failure of one step
ReportInit ==
  /\ AlertsNotInvoked
  /\ ExtractNotInvoked
  /\ LoadNotInvoked
  /\ rds \in SubscriberStores
  /\ onDelete = "no action"
  /\ pageCall = NoCall
  /\ environ \in {RequiredVars \cup ReportVars, RequiredVars \cup {"S3_BUCKET"}}
  /\ reportFault \in ReportFaults
  /\ report = [pc |-> "lambda_handler", trail |-> <<>>, recipients |-> <<>>,
               sent |-> <<>>, raised |-> "none", status |-> 0]

ReportNext ==
  \/ ReportCheckSender
  \/ GenerateDailyReport
  \/ UploadToS3
  \/ FetchRecipients
  \/ SendReport

ReportSpec == ReportInit /\ [][ReportNext]_vars

\* ---------------------------------------------------------------------
\* Invocations that follow each other
\* ---------------------------------------------------------------------
\* the outbox is a module-level list that is never emptied
InvokeRemembering ==
  /\ pc \in {"handler_returned", "handler_raised"}
  /\ run < MaxRuns
  /\ run' = run + 1
  /\ previous' = [outbox |-> outbox, metric |-> metric, queryLog |-> queryLog,
                  exc |-> exc, status |-> status]
  /\ pc' = "get_connection"
  /\ conn' = "none"
  /\ exc' = "none"
  /\ metric' = [top_artist |-> NotFetched, historic_top_artist |-> NotFetched,
                top_genre |-> NotFetched, historic_top_genre |-> NotFetched]
  /\ deltas' = [g \in Genres |-> NoDelta]
  /\ remaining' = {}
  /\ done' = {}
  /\ queryLog' = <<>>
  /\ status' = 0
  /\ UNCHANGED <<reportvars, dashvars, dbvars, pipevars, loadvars, outbox>>

\* the scheduler invokes lambda_handler again over the same store: main()
\* starts from nothing but the module constants, the environment and the
\* database
Invoke ==
  /\ pc \in {"handler_returned", "handler_raised"}
  /\ run < MaxRuns
  /\ run' = run + 1
  /\ previous' = [outbox |-> outbox, metric |-> metric, queryLog |-> queryLog,
                  exc |-> exc, status |-> status]
  /\ pc' = "get_connection"
  /\ conn' = "none"
  /\ exc' = "none"
  /\ metric' = [top_artist |-> NotFetched, historic_top_artist |-> NotFetched,
                top_genre |-> NotFetched, historic_top_genre |-> NotFetched]
  /\ deltas' = [g \in Genres |-> NoDelta]
  /\ remaining' = {}
  /\ done' = {}
  /\ queryLog' = <<>>
  /\ outbox' = <<>>
  /\ status' = 0
  /\ UNCHANGED <<reportvars, dashvars, dbvars, pipevars, loadvars>>

\* the stores the repeated invocations are run over: every table with at
\* most one recent sale of each kind, the smallest tables under every time
\* configuration, and the tables of the first release under every fault
RunEnvironments ==
  {[db |-> d, environ |-> RequiredVars \cup EmailVars] :
     d \in {[sale |-> s, subscriber |-> FullSubscribers,
             time |-> <<ALERT_INTERVAL, COMPARISON_PERIOD>>, fault |-> NoFault] :
              s \in UnitTables}
           \cup
           {[sale |-> s, subscriber |-> FullSubscribers, time |-> c,
             fault |-> NoFault] :
              s \in SaleTables(RecentSlots, MaxTinySales), c \in TimeConfigs}
           \cup
           {[sale |-> s, subscriber |-> FullSubscribers,
             time |-> <<ALERT_INTERVAL, COMPARISON_PERIOD>>, fault |-> f] :
              s \in SaleTables({x \in RecentSlots : SlotSeq[x].release_id = 1},
                               MaxTinySales),
              f \in Faults}}

RunsInit == Start(RunEnvironments)

RunsNext == Next \/ Invoke

RunsSpec == RunsInit /\ [][RunsNext]_vars

\* ---------------------------------------------------------------------
\* Vocabulary of the properties
\* ---------------------------------------------------------------------
\* the calls of send_email for a message of this kind about this subject
Calls(kind, about) ==
  {i \in DOMAIN outbox : outbox[i].kind = kind /\ outbox[i].about = about}

\* the calls of send_email for a message of this kind to this recipient
CallsTo(kind, e) ==
  {i \in DOMAIN outbox : outbox[i].kind = kind /\ outbox[i].to = e}

KindCalls(kind) == {i \in DOMAIN outbox : outbox[i].kind = kind}

GeneralSubscribers == {e \in Emails : subscriber[e].alert}

Followers(g) == {e \in Emails : g \in subscriber[e].genres}

\* ---------------------------------------------------------------------
\* C1
\* ---------------------------------------------------------------------
\* C1: a TopArtistChanged message is sent only when the fetched current top
\* artist differs from the fetched historic one, only to general
\* subscribers, names the current top artist, and no recipient gets two;
\* once alert_top_artist_change has returned, every general subscriber has
\* exactly one such message if the two artists differ and nobody has one
\* if they are equal.
C1_TopArtistDecision ==
  LET changed == metric.top_artist # metric.historic_top_artist
  IN /\ \A i \in KindCalls("TopArtistChanged") :
          /\ changed
          /\ metric.historic_top_artist # NotFetched
          /\ outbox[i].to \in GeneralSubscribers
          /\ outbox[i].about = metric.top_artist
     /\ \A e \in Emails : Cardinality(CallsTo("TopArtistChanged", e)) <= 1
     /\ "top_artist" \in done =>
          /\ metric.top_artist \in query_top_artist(sale, comparisonPeriod)
          /\ metric.historic_top_artist
               \in query_historic_top_artist(sale, comparisonPeriod, alertInterval)
          /\ \A e \in Emails :
               Cardinality(CallsTo("TopArtistChanged", e)) =
                 IF changed /\ e \in GeneralSubscribers THEN 1 ELSE 0

\* current top artist A, historic top artist B, two general subscribers:
\* exactly two TopArtistChanged messages, one each
C1_Witness ==
  /\ "top_artist" \in done
  /\ metric.top_artist = "A"
  /\ metric.historic_top_artist = "B"
  /\ Cardinality(GeneralSubscribers) = 2
  /\ Cardinality(KindCalls("TopArtistChanged")) = 2
  /\ \A e \in GeneralSubscribers : Cardinality(CallsTo("TopArtistChanged", e)) = 1

\* ---------------------------------------------------------------------
\* C2
\* ---------------------------------------------------------------------
\* C2: a TopGenreChanged message is sent only when the fetched current top
\* genre differs from the fetched historic one, whatever the top-artist
\* check decided; once alert_top_genre_change has returned, every general
\* subscriber has exactly one such message if the two genres differ and
\* nobody has one if they are equal.
C2_TopGenreIndependent ==
  LET changed == metric.top_genre # metric.historic_top_genre
  IN /\ \A i \in KindCalls("TopGenreChanged") :
          /\ changed
          /\ metric.historic_top_genre # NotFetched
          /\ outbox[i].to \in GeneralSubscribers
          /\ outbox[i].about = metric.top_genre
     /\ \A e \in Emails : Cardinality(CallsTo("TopGenreChanged", e)) <= 1
     /\ "top_genre" \in done =>
          /\ metric.top_genre \in query_top_genre(sale, comparisonPeriod)
          /\ metric.historic_top_genre
               \in query_historic_top_genre(sale, comparisonPeriod, alertInterval)
          /\ \A e \in Emails :
               Cardinality(CallsTo("TopGenreChanged", e)) =
                 IF changed /\ e \in GeneralSubscribers THEN 1 ELSE 0

\* the top artist changed and its messages went out, the top genre is the
\* same in both windows and no TopGenreChanged message was sent
C2_Witness ==
  /\ "top_genre" \in done
  /\ metric.top_artist # metric.historic_top_artist
  /\ Cardinality(KindCalls("TopArtistChanged")) = 2
  /\ metric.top_genre = metric.historic_top_genre
  /\ metric.top_genre \in Genres
  /\ KindCalls("TopGenreChanged") = {}

\* ---------------------------------------------------------------------
\* C3
\* ---------------------------------------------------------------------
\* C3: every delta computed in a run is 100 * (current - historic) /
\* historic, where current and historic are the results of the two
\* sale-count queries for the genre and historic is not zero; once
\* alert_subscribed_genres has returned every subscribed genre has its
\* delta; and 200 against 150 gives 33.33 within 0.01.
C3_DeltaFormula ==
  /\ \A g \in Genres :
       deltas[g] # NoDelta =>
         LET current == query_genre_sales(sale, g, comparisonPeriod)
             historic == query_historic_genre_sales(sale, g, comparisonPeriod,
                                                    alertInterval)
         IN /\ historic # 0
            /\ deltas[g].den > 0
            /\ deltas[g].num * historic = 100 * (current - historic) * deltas[g].den
  /\ "subscribed_genres" \in done =>
       \A g \in get_subscribed_genres(subscriber) : deltas[g] # NoDelta
  /\ LET d == PercentDelta(200, 150)
     IN /\ 100 * d.num - 3333 * d.den <= d.den
        /\ 3333 * d.den - 100 * d.num <= d.den

\* four rock sales in the current window, three of them historic: the delta
\* of rock is 100 / 3, the ratio of 200 against 150
C3_Witness ==
  /\ query_genre_sales(sale, "rock", comparisonPeriod) = 4
  /\ query_historic_genre_sales(sale, "rock", comparisonPeriod, alertInterval) = 3
  /\ deltas["rock"] = [num |-> 100, den |-> 3]

\* ---------------------------------------------------------------------
\* C4
\* ---------------------------------------------------------------------
HistoricSales(g) ==
  query_historic_genre_sales(sale, g, comparisonPeriod, alertInterval)

\* C4: a genre whose historic sale count is zero never gets a delta, the
\* division by zero does not leave alert_subscribed_genres, and when the
\* loop is over every subscribed genre with a historic sale has been
\* evaluated.
C4_ZeroHistoricHandled ==
  /\ \A g \in Genres : HistoricSales(g) = 0 => deltas[g] = NoDelta
  /\ exc # "ZeroDivisionError"
  /\ pc \in {"close", "returned"} \/ status = 200 =>
       \A g \in get_subscribed_genres(subscriber) :
         HistoricSales(g) # 0 => deltas[g] # NoDelta

\* ---------------------------------------------------------------------
\* C5
\* ---------------------------------------------------------------------
\* C5: GenreGrowth messages about a genre are sent only when its delta is
\* strictly greater than GENRE_NOTIFICATION_THRESHOLD; a delta equal to
\* the threshold sends nothing; a genre whose iteration met no fault and
\* whose delta is strictly greater has its messages.
C5_StrictThreshold ==
  \A g \in Genres :
    LET above == deltas[g].num > GENRE_NOTIFICATION_THRESHOLD * deltas[g].den
        equal == deltas[g].num = GENRE_NOTIFICATION_THRESHOLD * deltas[g].den
    IN /\ Calls("GenreGrowth", g) # {} => deltas[g] # NoDelta /\ above
       /\ deltas[g] # NoDelta /\ equal => Calls("GenreGrowth", g) = {}
       /\ deltas[g] # NoDelta /\ above /\ fault.step # g =>
            Calls("GenreGrowth", g) # {}

\* rock was evaluated with six sales against five: exactly 20 percent, and
\* no message about rock
C5_Witness ==
  /\ deltas["rock"] = [num |-> 100, den |-> 5]
  /\ "rock" \in get_subscribed_genres(subscriber)
  /\ Calls("GenreGrowth", "rock") = {}

\* ---------------------------------------------------------------------
\* C6
\* ---------------------------------------------------------------------
\* C6: a GenreGrowth message about a genre goes only to a follower of that
\* genre, only when the delta of that genre exceeds the threshold, and at
\* most once per follower; a genre whose iteration met no fault has exactly
\* one message per follower if its delta exceeds the threshold and none
\* otherwise, whatever happened to the other genres.
C6_PerGenreSends ==
  \A g \in Genres :
    LET above == deltas[g].num > GENRE_NOTIFICATION_THRESHOLD * deltas[g].den
        to(e) == {i \in Calls("GenreGrowth", g) : outbox[i].to = e}
    IN /\ \A i \in Calls("GenreGrowth", g) :
            /\ outbox[i].to \in Followers(g)
            /\ deltas[g] # NoDelta
            /\ above
       /\ \A e \in Emails : Cardinality(to(e)) <= 1
       /\ deltas[g] # NoDelta /\ fault.step # g =>
            \A e \in Emails :
              Cardinality(to(e)) = IF above /\ e \in Followers(g) THEN 1 ELSE 0

\* rock below the threshold and without a message, jazz above it with one
\* message for each of its two followers
C6_Witness ==
  /\ "subscribed_genres" \in done
  /\ deltas["rock"] # NoDelta
  /\ ~(deltas["rock"].num > GENRE_NOTIFICATION_THRESHOLD * deltas["rock"].den)
  /\ Calls("GenreGrowth", "rock") = {}
  /\ Followers("rock") # {}
  /\ deltas["jazz"].num > GENRE_NOTIFICATION_THRESHOLD * deltas["jazz"].den
  /\ Cardinality(Followers("jazz")) = 2
  /\ Cardinality(Calls("GenreGrowth", "jazz")) = 2
  /\ \A e \in Followers("jazz") :
       \E i \in Calls("GenreGrowth", "jazz") : outbox[i].to = e

\* ---------------------------------------------------------------------
\* C7
\* ---------------------------------------------------------------------
TransportExceptions ==
  {TransportError(t) : t \in TransportFailures} \cup {"UnboundLocalError"}

\* the recipients of the send loop the i-th call belongs to
LoopRecipients(i) ==
  IF outbox[i].kind = "GenreGrowth"
    THEN Followers(outbox[i].about)
    ELSE GeneralSubscribers

\* C7: when the SMTP conversation of one call fails, no exception of the
\* transport leaves send_email and every recipient of that loop still has
\* its call.
C7_DeliveryFailureRecovered ==
  \A i \in DOMAIN outbox :
    outbox[i].result # "ok" =>
      /\ exc \notin TransportExceptions
      /\ \A e \in LoopRecipients(i) :
           \E j \in Calls(outbox[i].kind, outbox[i].about) : outbox[j].to = e

\* ---------------------------------------------------------------------
\* C8
\* ---------------------------------------------------------------------
MainExited == pc \in {"returned", "raised", "handler_returned", "handler_raised"}

\* C8: once main() has exited, a connection that was opened is closed.
C8_ConnectionClosedOnExit == MainExited /\ conn # "none" => conn = "closed"

\* ---------------------------------------------------------------------
\* C9
\* ---------------------------------------------------------------------
\* C9: no exception leaves lambda_handler; it answers 200 exactly when
\* main() raised nothing and 500 exactly when main() raised.
C9_HandlerAnswersEveryError ==
  /\ pc # "handler_raised"
  /\ pc = "handler_returned" =>
       /\ status = 200 <=> exc = "none"
       /\ status = 500 <=> exc # "none"

\* ---------------------------------------------------------------------
\* C10
\* ---------------------------------------------------------------------
\* a query of the step (a step of main, or the iteration of a genre) raised
\* psycopg2.Error
QueryFailed(step) ==
  /\ fault.step = step
  /\ fault.dbfail > 0
  /\ exc = "psycopg2.Error"

Delivered(calls) == {i \in calls : outbox[i].result = "ok"}

\* C10 as stated: when a query of a family fails, no message of that family
\* is delivered in the run; a failing query of one subscribed genre leaves
\* no GenreGrowth message at all.
C10_NoPartialDelivery ==
  /\ QueryFailed("alert_top_artist_change") =>
       Delivered(KindCalls("TopArtistChanged")) = {}
  /\ QueryFailed("alert_top_genre_change") =>
       Delivered(KindCalls("TopGenreChanged")) = {}
  /\ (QueryFailed("get_subscribed_genres") \/ \E g \in Genres : QueryFailed(g)) =>
       Delivered(KindCalls("GenreGrowth")) = {}

\* C10 amended: a failing query of the top-artist or top-genre family
\* leaves no message of that family; a failing query of one subscribed
\* genre leaves no GenreGrowth message about that genre, and a failing
\* get_subscribed_genres leaves no GenreGrowth message at all.
C10_NoDeliveryForFailedQuery ==
  /\ QueryFailed("alert_top_artist_change") =>
       Delivered(KindCalls("TopArtistChanged")) = {}
  /\ QueryFailed("alert_top_genre_change") =>
       Delivered(KindCalls("TopGenreChanged")) = {}
  /\ QueryFailed("get_subscribed_genres") => Delivered(KindCalls("GenreGrowth")) = {}
  /\ \A g \in Genres : QueryFailed(g) => Delivered(Calls("GenreGrowth", g)) = {}

\* a query for jazz failed after the messages about rock were delivered
C10_Witness ==
  /\ QueryFailed("jazz")
  /\ pc = "raised"
  /\ Delivered(Calls("GenreGrowth", "rock")) # {}
  /\ Calls("GenreGrowth", "jazz") = {}

\* ---------------------------------------------------------------------
\* C11
\* ---------------------------------------------------------------------
\* C11: when a required database variable is missing, the run has failed
\* with the configuration error as soon as it has taken its first step:
\* no connection was attempted, no query ran and no message was sent.
C11_MissingVariableFailsFirst ==
  validate_env_vars(environ) # "none" /\ pc # "get_connection" =>
    /\ exc = "EnvironmentError"
    /\ conn = "none"
    /\ queryLog = <<>>
    /\ outbox = <<>>

\* ---------------------------------------------------------------------
\* C12
\* ---------------------------------------------------------------------
\* C12 as stated: in one run no recipient has two calls of the same kind.
C12_OnePerKindAndRecipient ==
  \A kind \in Kinds, e \in Emails : Cardinality(CallsTo(kind, e)) <= 1

\* C12 amended: in one run no recipient has two TopArtistChanged or two
\* TopGenreChanged calls, and no recipient has two GenreGrowth calls about
\* the same genre; the GenreGrowth calls to one recipient are as many as
\* the genres they are about.
C12_OnePerSubjectAndRecipient ==
  \A e \in Emails :
    /\ \A kind \in Kinds \ {"GenreGrowth"} : Cardinality(CallsTo(kind, e)) <= 1
    /\ \A g \in Genres :
         Cardinality(Calls("GenreGrowth", g) \cap CallsTo("GenreGrowth", e)) <= 1
    /\ Cardinality(CallsTo("GenreGrowth", e)) =
         Cardinality({outbox[i].about : i \in CallsTo("GenreGrowth", e)})

\* a subscriber of rock and jazz, both above the threshold, has two
\* GenreGrowth messages, one about each genre
C12_Witness ==
  \E e \in Emails :
    /\ subscriber[e].genres = {"rock", "jazz"}
    /\ "subscribed_genres" \in done
    /\ Cardinality(CallsTo("GenreGrowth", e)) = 2
    /\ \A g \in Genres :
         Cardinality(Calls("GenreGrowth", g) \cap CallsTo("GenreGrowth", e)) = 1

\* ---------------------------------------------------------------------
\* C13
\* ---------------------------------------------------------------------
\* how often m occurs in the sequence
Occurrences(seq, m) == Cardinality({i \in DOMAIN seq : seq[i] = m})

HandlerExited == pc \in {"handler_returned", "handler_raised"}

CountedCurrent(S) ==
  {s \in S : sale[s] > 0 /\ InCurrentWindow(SlotSeq[s].age, comparisonPeriod)}

CountedHistoric(S) ==
  {s \in S : sale[s] > 0 /\ InHistoricWindow(SlotSeq[s].age, comparisonPeriod,
                                              alertInterval)}

Executed(name, genre) == Occurrences(queryLog, Q(name, genre))

TopQueries ==
  {"query_top_artist", "query_historic_top_artist", "query_top_genre",
   "query_historic_top_genre"}

SaleCountQueries == {"query_genre_sales", "query_historic_genre_sales"}

\* C15: no metric query is executed twice in a run; a top family that has
\* returned executed its current and its historic query once each; a genre
\* whose delta was computed had its two sale counts fetched once each, and
\* when alert_subscribed_genres has returned that is so for every
\* subscribed genre and for no other genre.
C15_EachMetricFetchedOnce ==
  /\ \A name \in TopQueries : Executed(name, "") <= 1
  /\ \A name \in SaleCountQueries, g \in Genres : Executed(name, g) <= 1
  /\ "top_artist" \in done =>
       Executed("query_top_artist", "") = 1
         /\ Executed("query_historic_top_artist", "") = 1
  /\ "top_genre" \in done =>
       Executed("query_top_genre", "") = 1
         /\ Executed("query_historic_top_genre", "") = 1
  /\ \A g \in Genres :
       deltas[g] # NoDelta =>
         \A name \in SaleCountQueries : Executed(name, g) = 1
  /\ "subscribed_genres" \in done =>
       \A name \in SaleCountQueries, g \in Genres :
         Executed(name, g) = IF g \in get_subscribed_genres(subscriber) THEN 1 ELSE 0

\* a run over two subscribed genres has returned: four top queries and four
\* sale-count queries, each executed once
C15_Witness ==
  /\ pc = "returned"
  /\ get_subscribed_genres(subscriber) = Genres
  /\ \A name \in TopQueries : Executed(name, "") = 1
  /\ \A name \in SaleCountQueries, g \in Genres : Executed(name, g) = 1

\* ---------------------------------------------------------------------
\* C16
\* ---------------------------------------------------------------------
\* the store has a sale made this minute
SoldNow == \E s \in Slots : sale[s] > 0 /\ SlotSeq[s].age = 0

\* C16: convert_mins_to_sql_time raises ValueError for minutes below one,
\* and a run configured with ALERT_INTERVAL or COMPARISON_PERIOD below one
\* (over a store in which the top queries find a row) executes no query
\* and sends no message: its first family raises ValueError.
C16_InvalidTimeFailsFirst ==
  /\ \A minutes \in {-1, 0} :
       convert_mins_to_sql_time(minutes).raised = "ValueError"
  /\ SoldNow /\ (alertInterval < 1 \/ comparisonPeriod < 1) =>
       /\ queryLog = <<>>
       /\ outbox = <<>>
       /\ pc \notin {"get_connection", "alert_top_artist_change"} =>
            exc = "ValueError"

\* ---------------------------------------------------------------------
\* C17
\* ---------------------------------------------------------------------
\* the sentence about the growth of the genre
GrowthSentence(genre, sales_delta) ==
  <<"Your subscribed genre '", genre, "' has seen a ">>
    \o OneDecimal(sales_delta)
    \o <<"% increase in sales in the last ", alertInterval, " minutes!">>

\* C17: every GenreGrowth message has the subject '<Genre> Growth Alert'
\* and a body that starts with the growth sentence and goes on with a blank
\* line and the header of the top selling artists of the genre.
C17_GrowthBodyHasArtistHeader ==
  \A i \in KindCalls("GenreGrowth") :
    LET body == outbox[i].body
        sentence == GrowthSentence(outbox[i].about, deltas[outbox[i].about])
        n == Len(sentence)
    IN /\ outbox[i].subject = <<Title[outbox[i].about], " Growth Alert">>
       /\ Len(body) >= n + 4
       /\ SubSeq(body, 1, n) = sentence
       /\ SubSeq(body, n + 1, n + 4) =
            <<"\n\n", "The current top selling artists in ", outbox[i].about,
              " are:\n">>

\* ---------------------------------------------------------------------
\* C18
\* ---------------------------------------------------------------------
\* the names of the calls made on smtplib, in order
Ops(steps) == [j \in DOMAIN steps |-> steps[j].op]

\* C18: every call of send_email opens the connection to smtp.gmail.com
\* port 587 first; a conversation in which nothing fails is SMTP, starttls,
\* login with EMAIL_NAME and EMAIL_PASSWORD, sendmail to the recipient and
\* quit, each once; a conversation in which a call fails is the calls up to
\* that one in this order; and quit is the last call whenever the
\* connection was opened.
C18_TransportStepsInOrder ==
  \A i \in DOMAIN outbox :
    LET steps == outbox[i].steps
        ops == Ops(steps)
        whole == <<"SMTP", "starttls", "login", "sendmail", "quit">>
        opened == outbox[i].result # "connect"
    IN /\ steps[1] = [op |-> "SMTP", args |-> <<"smtp.gmail.com", 587>>]
       /\ outbox[i].result = "ok" => ops = whole
       /\ \A j \in DOMAIN steps :
            /\ steps[j].op = "login" =>
                 steps[j].args = <<"EMAIL_NAME", "EMAIL_PASSWORD">>
            /\ steps[j].op = "sendmail" => steps[j].args[2] = outbox[i].to
       /\ opened =>
            /\ ops[Len(ops)] = "quit"
            /\ SubSeq(ops, 1, Len(ops) - 1) = SubSeq(whole, 1, Len(ops) - 1)
       /\ ~opened => ops = <<"SMTP">>

\* the login of the second message of a loop was refused: SMTP, starttls,
\* login and quit, after a first message that went through all five calls
C18_Witness ==
  \E i \in DOMAIN outbox :
    /\ i > 1
    /\ outbox[i].result = "login"
    /\ Ops(outbox[i].steps) = <<"SMTP", "starttls", "login", "quit">>
    /\ Ops(outbox[i - 1].steps) = <<"SMTP", "starttls", "login", "sendmail", "quit">>

\* ---------------------------------------------------------------------
\* C19
\* ---------------------------------------------------------------------
\* the exception that left the send_email call of the i-th message
Raised(i) ==
  send_email(outbox[i].to, outbox[i].subject, outbox[i].body,
             outbox[i].result).raised

\* C19: when send_email raises for a TopArtistChanged message, that very
\* exception leaves send_top_artist_alert and the run: the call is the last
\* one of the run (no second attempt, no later recipient) and the only one
\* to that recipient.
C19_SendErrorPropagates ==
  \A i \in KindCalls("TopArtistChanged") :
    Raised(i) # "none" =>
      /\ i = Len(outbox)
      /\ exc = Raised(i)
      /\ pc \in {"raised", "handler_raised"}
      /\ Cardinality(CallsTo("TopArtistChanged", outbox[i].to)) = 1

\* sendmail refused the first of two general subscribers: one call, and
\* SMTPRecipientsRefused has left the run
C19_Witness ==
  /\ Cardinality(GeneralSubscribers) = 2
  /\ Len(outbox) = 1
  /\ outbox[1].kind = "TopArtistChanged"
  /\ outbox[1].result = "sendmail"
  /\ exc = "SMTPRecipientsRefused"
  /\ pc = "handler_raised"

\* ---------------------------------------------------------------------
\* C20
\* ---------------------------------------------------------------------
EmptyDict == [json |-> "object", keys |-> {}]

\* C20: get_sales_information returns what the body parses to when the feed
\* answers 200 with a JSON document, and returns an empty dict without
\* raising when the feed answers with another status, times out or cannot
\* be reached.
C20_ExtractNeverRaises ==
  extracted # NotExtracted =>
    /\ feed.net = "ok" /\ feed.status = 200
         /\ feed.content_type = "application/json"
         /\ feed.body.json # "invalid" /\ Truthy(feed.body) =>
           extracted.got = [raised |-> "none", value |-> feed.body]
    /\ feed.net # "ok" \/ feed.status # 200 =>
         /\ extracted.got.raised = "none"
         /\ extracted.got.value = EmptyDict

\* ---------------------------------------------------------------------
\* C23
\* ---------------------------------------------------------------------
\* C23: every delta computed in a run is non-negative: whatever the store
\* and the two periods, the historic sale count of a genre is at most its
\* current sale count.
C23_DeltaNeverNegative ==
  /\ \A g \in Genres :
       query_historic_genre_sales(sale, g, comparisonPeriod, alertInterval)
         <= query_genre_sales(sale, g, comparisonPeriod)
  /\ \A g \in Genres :
       deltas[g] # NoDelta => deltas[g].den > 0 /\ deltas[g].num >= 0

\* a genre all of whose current sales are historic: its delta is zero, the
\* least a run can compute
C23_Witness ==
  \E g \in Genres :
    /\ deltas[g] # NoDelta
    /\ deltas[g].num = 0
    /\ query_genre_sales(sale, g, comparisonPeriod) > 0

\* ---------------------------------------------------------------------
\* C24
\* ---------------------------------------------------------------------
\* sales inside the comparison period
CurrentSales ==
  RowCount(sale, {s \in Slots : InCurrentWindow(SlotSeq[s].age, comparisonPeriod)})

\* sales inside the historic window
HistoricWindowSales ==
  RowCount(sale, {s \in Slots : InHistoricWindow(SlotSeq[s].age, comparisonPeriod,
                                                  alertInterval)})

\* C24: a run with periods of more than a minute and without database or
\* transport fault over a store with no sale in the comparison period, or
\* none in the historic window, raises nothing and sends no
\* TopArtistChanged or TopGenreChanged message.
C24_EmptyWindowTolerated ==
  /\ CurrentSales = 0 \/ HistoricWindowSales = 0
  /\ fault = NoFault
  /\ alertInterval > 1 /\ comparisonPeriod > 1
  => /\ pc \notin {"raised", "handler_raised"}
     /\ KindCalls("TopArtistChanged") = {}
     /\ KindCalls("TopGenreChanged") = {}

\* ---------------------------------------------------------------------
\* C25
\* ---------------------------------------------------------------------
\* NOW() - INTERVAL '<minutes> minutes', or '1 minute', in its pieces
QuotedInterval(minutes) ==
  <<"NOW() - INTERVAL ", "'", minutes, " minute">>
    \o (IF minutes = 1 THEN <<>> ELSE <<"s">>) \o <<"'">>

\* C25: for the periods of a run that are at least one minute,
\* convert_mins_to_sql_time returns NOW() - INTERVAL and a literal inside
\* two single quotes, '<minutes> minutes' or '1 minute'.
C25_LiteralKeepsBothQuotes ==
  \A minutes \in {alertInterval, comparisonPeriod} :
    minutes >= 1 /\ queryLog # <<>> =>
      convert_mins_to_sql_time(minutes) =
        [raised |-> "none", text |-> QuotedInterval(minutes)]

\* ---------------------------------------------------------------------
\* C21
\* ---------------------------------------------------------------------
\* get_connection() of main_load returned None
ConnectionFailed ==
  /\ loadFault.connect # "ok"
  /\ load.pc \notin {"validate_env_vars", "get_connection"}
  /\ validate_env_vars(environ) = "none"

\* C21: once get_connection has returned None, main_load has returned
\* without raising, its only log entry is the connection failure, it has
\* not touched the frame, executed no statement and committed nothing.
C21_NoConnectionNoLoad ==
  ConnectionFailed =>
    /\ load.pc = "returned"
    /\ load.raised = "none"
    /\ cursor.log = <<"Database connection failed. Exiting.">>
    /\ ~load.parsed
    /\ load.row = 0 /\ load.processed = <<>>
    /\ cursor.statements = <<>>
    /\ load.commits = 0
    /\ cursor.tables = durable /\ durable \in SeededTables

\* the connection was refused for a load of two rows
C21_Witness == ConnectionFailed /\ Len(frame) = 2 /\ load.pc = "returned"

\* ---------------------------------------------------------------------
\* C22
\* ---------------------------------------------------------------------
\* the reference tables and the names the frame can bring
ReferenceTables == {"country", "artist", "genre"}

ReferenceNames == {"UK", "US", "A", "B", "Rock", "Jazz"}

\* no two rows of the table are equal
NoDuplicate(table) ==
  \A i, j \in DOMAIN table : table[i] = table[j] => i = j

\* the i-th statement of the load is an INSERT into a reference table
ReferenceInsert(i) ==
  /\ cursor.statements[i].op = "INSERT"
  /\ cursor.statements[i].table \in ReferenceTables

\* C22: no reference table ever holds two rows of one name; every INSERT
\* into a reference table directly follows the lookup of the same name;
\* insert_country of a name the table holds executes the lookup alone; and
\* calling insert_country, insert_artist or insert_genres a second time
\* with the same name changes nothing.
C22_CheckThenInsert ==
  /\ \A t \in ReferenceTables :
       NoDuplicate(cursor.tables[t]) /\ NoDuplicate(durable[t])
  /\ \A i \in DOMAIN cursor.statements :
       ReferenceInsert(i) =>
         /\ i > 1
         /\ cursor.statements[i - 1] = [cursor.statements[i] EXCEPT !.op = "SELECT"]
  /\ \A n \in ReferenceNames :
       IdOf(cursor.tables.country, n) # 0 /\ ~Fails(cursor) =>
         insert_country(n, cursor) = Execute(cursor, "SELECT", "country", <<n>>)
  /\ \A n \in ReferenceNames :
       /\ LET once == insert_country(n, cursor)
          IN /\ insert_country(n, once).tables = once.tables
             /\ NoDuplicate(once.tables.country)
       /\ LET once == insert_artist(n, cursor)
          IN /\ insert_artist(n, once).tables = once.tables
             /\ NoDuplicate(once.tables.artist)
       /\ LET once == insert_genres(n, cursor).c
          IN /\ insert_genres(n, once).c.tables = once.tables
             /\ NoDuplicate(once.tables.genre)

\* two rows of one country were loaded into a table without it: the
\* country was inserted for the first and found for the second
C22_Witness ==
  /\ Len(frame) = 2
  /\ frame[1].country = frame[2].country
  /\ load.pc = "commit"
  /\ loadFault.failAt = 0
  /\ durable.country = <<>>
  /\ cursor.tables.country = <<frame[1].country>>

\* ---------------------------------------------------------------------
\* C30
\* ---------------------------------------------------------------------
\* the statements executed in the iteration of row i
StatementsOfRow(i) ==
  {k \in DOMAIN cursor.statements :
     /\ k <= load.processed[i].upto
     /\ i > 1 => k > load.processed[i - 1].upto}

\* the sale rows of this load
NewSales ==
  {k \in DOMAIN cursor.tables.sale : k > Len(durable.sale) \/ load.commits > 0}

\* C30: a row for which insert_release returned None has no INSERT into
\* release_genre or sale among its statements and no sale row, and the
\* loop goes on to the rows after it; every sale row of the load has the
\* release_id insert_release returned for its row; and the one commit
\* comes after the last row.
C30_ReleaseGatesSale ==
  /\ \A i \in DOMAIN load.processed :
       load.processed[i].release_id = 0 =>
         /\ \A k \in StatementsOfRow(i) :
              ~(/\ cursor.statements[k].op = "INSERT"
                /\ cursor.statements[k].table \in {"release_genre", "sale"})
         /\ \A k \in NewSales : cursor.tables.sale[k].row # i
         /\ i < Len(frame) => load.pc = "row" \/ Len(load.processed) > i
  /\ \A k \in NewSales :
       LET s == cursor.tables.sale[k]
       IN /\ s.row \in DOMAIN load.processed
          /\ s.release_id = load.processed[s.row].release_id
          /\ s.release_id # 0
  /\ load.commits <= 1
  /\ load.commits = 1 => Len(load.processed) = Len(frame)
  /\ load.commits = 0 => durable \in SeededTables

\* the first row has no release (its type is unknown), the second was
\* loaded with its sale, and the load was committed
C30_Witness ==
  /\ Len(load.processed) = 2
  /\ load.processed[1].release_id = 0
  /\ load.processed[2].release_id # 0
  /\ load.commits = 1
  /\ \E k \in DOMAIN durable.sale : durable.sale[k].row = 2

\* ---------------------------------------------------------------------
\* C26
\* ---------------------------------------------------------------------
\* check_if_email_exists was called with an address
Checked == pageCall.fn = "check_if_email_exists"

C27_UpdateStoresSelection ==
  pageCall.fn = "update_existing_subscriber_info" =>
    /\ \A a \in rds.subscriber :
         a.subscriber_id = pageCall.sub_id =>
           /\ a.subscribe_alert = pageCall.general_alerts
           /\ a.subscribe_report = pageCall.daily_reports
    /\ GenresOfId(rds, pageCall.sub_id) = pageCall.selected_genre_ids
    /\ {a \in rds.subscriber : a.subscriber_id # pageCall.sub_id}
         = {a \in pageCall.before.subscriber : a.subscriber_id # pageCall.sub_id}
    /\ {r \in rds.subscriber_genre : r.subscriber_id # pageCall.sub_id}
         = {r \in pageCall.before.subscriber_genre :
              r.subscriber_id # pageCall.sub_id}

\* ---------------------------------------------------------------------
\* C28
\* ---------------------------------------------------------------------
\* C28: under a schema that lets a subscriber row with genre rows be
\* deleted, unsubscribe_user of a subscribed address raises nothing and
\* leaves neither the subscriber row nor a genre row of that subscriber,
\* and the alert run that follows sends the address nothing;
\* unsubscribe_user of an address that is not subscribed raises nothing
\* and leaves the tables as they were.
C28_UnsubscribeRemovesAll ==
  pageCall.fn = "unsubscribe_user" /\ onDelete # "restrict" =>
    LET was == RowsOfEmail(pageCall.before, pageCall.email)
    IN /\ pageCall.raised = "none"
       /\ RowsOfEmail(rds, pageCall.email) = {}
       /\ \A a \in was : GenresOfId(rds, a.subscriber_id) = {}
       /\ was # {} => \A i \in DOMAIN outbox : outbox[i].to # pageCall.email
       /\ was = {} => rds = pageCall.before

\* ---------------------------------------------------------------------
\* C29
\* ---------------------------------------------------------------------
RECURSIVE IsPrefix(_, _)
\* s is the beginning of t
IsPrefix(s, t) ==
  \/ s = <<>>
  \/ /\ t # <<>>
     /\ Head(s) = Head(t)
     /\ IsPrefix(Tail(s), Tail(t))

\* C29: without SENDER_EMAIL the report handler returns 500 and takes no
\* step; otherwise its steps are generate, upload, fetch and send in this
\* order; when no step fails and there is a report subscriber every
\* recipient is sent the report and the status is 200; a ValueError gives
\* 400, a ClientError 503 and any other exception 500.
C29_ReportSentToEveryRecipient ==
  /\ IsPrefix(report.trail, ReportSteps)
  /\ report.pc = "returned" =>
       /\ "SENDER_EMAIL" \notin environ =>
            report.status = 500 /\ report.trail = <<>> /\ report.sent = <<>>
       /\ report.raised # "none" => report.status = ReportStatus(report.raised)
       /\ /\ "SENDER_EMAIL" \in environ
          /\ reportFault = NoReportFault
          /\ get_report_subscriber_emails(rds) # <<>>
          => /\ report.status = 200
             /\ report.sent = get_report_subscriber_emails(rds)

====
